---- MODULE Spec2Model ----
(***************************************************************************)
(* Request-control layer of the KRA-Connect SDK: the token-bucket and      *)
(* sliding-window rate limiters (rate_limiter.py), the cache manager over  *)
(* its in-memory TTL backend (cache.py), and the client pipeline that     *)
(* sequences them around a transport call (client.py, http_client.py).    *)
(*                                                                         *)
(* Time is a discrete clock `now` counted in ticks, TicksPerSecond ticks   *)
(* to the second.  The float `tokens` of the token bucket is kept exactly  *)
(* as an integer number of 1/Scale tokens, Scale = window_seconds *        *)
(* TicksPerSecond, so that one tick of elapsed time refills exactly        *)
(* max_requests units (refill_rate = max_requests / window_seconds).       *)
(***************************************************************************)
EXTENDS Integers, Sequences, FiniteSets, TLC

(* ---------------- configuration and bounds ---------------- *)

\* RateLimitConfig.max_requests of the modelled instance
max_requests == 2
\* RateLimitConfig.window_seconds of the modelled instance
window_seconds == 2
\* resolution of the clock
TicksPerSecond == 2
\* the clock stops advancing here
MaxTime == 6
\* number of tasks / threads that may use one limiter concurrently
NumTasks == 2
\* largest finite timeout argument, in ticks
MaxTimeout == 2
\* CacheConfig.ttl of the modelled instance, in seconds
cache_ttl == 2
\* CacheConfig.max_size of the modelled instance: the smallest cache, in which
\* every store under a new key evicts
max_size == 1
\* RetryConfig.max_attempts (its default)
max_attempts == 3
\* ttl=1800 of get_taxpayer_details, on the scale of cache_ttl: half the default
TaxpayerTtl == 1
\* RetryConfig defaults: initial_delay = 1.0, max_delay = 30.0 seconds,
\* exponential_base = 2.0
initial_delay == 1
max_delay == 30
exponential_base == 2
\* largest attempt number passed to get_delay
MaxAttempt == 6
\* random.random() is drawn from {0, 1/JitterSteps, ..., (JitterSteps-1)/JitterSteps}
JitterSteps == 4
\* largest initial_delay, max_delay and exponential_base of a RetryConfig built
\* with other than the defaults
MaxInitialDelayArg == 2
MaxDelayArg == 4
MaxBaseArg == 3
\* generate_key is called with at most this many keyword parameters, each
\* value one of 1..MaxParamValue
MaxParams == 3
MaxParamValue == 2
\* number of digests the model of md5 distinguishes
HashMod == 16

\* bits in the significand of a float (53 in Python)
Precision == 5
\* a float is kept as a whole number of 1/FloatUnit
FloatUnit == 2 ^ (Precision + 6)
\* the floats end below 2 ^ max_exp (sys.float_info.max_exp, 1024 in Python)
max_exp == 8

\* the tasks of the concurrent specifications
ConcTasks == 1..NumTasks
\* one token, in units of tokens
Scale == window_seconds * TicksPerSecond
\* float(config.max_requests)
Capacity == max_requests * Scale
\* window_seconds in ticks
WindowTicks == window_seconds * TicksPerSecond
\* the cost argument of acquire ranges beyond the capacity
MaxCost == max_requests + 1
\* timeout=None
NoTimeout == 0 - 1
Timeouts == {NoTimeout, 0, MaxTimeout}

Min(a, b) == IF a <= b THEN a ELSE b
Max(a, b) == IF a >= b THEN a ELSE b
CeilDiv(a, b) == (a + b - 1) \div b

\* the callers of scenario A: one more than the bucket holds
LiveTasks == 1..(max_requests + 1)
\* every task of any specification
Tasks == 1..Max(NumTasks, max_requests + 1)

VARIABLES
    now,          \* time.time(), in ticks
    kind,         \* which limiter class the instance is: "tb" or "sw"
    rl_enabled,   \* the limiter's self.enabled (RateLimitConfig.enabled)
    tokens,       \* TokenBucketRateLimiter.tokens, in 1/Scale tokens
    last_refill,  \* TokenBucketRateLimiter.last_refill
    requests,     \* SlidingWindowRateLimiter.requests (deque, oldest first)
    pc,           \* position of each task in the call it is executing
    call,         \* arguments and start_time of each task's current call
    loc,          \* locals of _refill_tokens: now, tokens_to_add
    wake,         \* end of the sleep a task is in
    result,       \* outcome of each task's last acquire
    retval,       \* value returned by each task's last helper call, or retry_after
                  \* of the error its last acquire raised
    granted,      \* history: total cost granted since construction or reset
    grants,       \* history: grant times of the sliding window
    taken,        \* history: cost subtracted / stamps appended by the current call
    entry,        \* history: the limiter's state when the caller made its timed call
    enabled,      \* CacheManager.enabled
    store,        \* TTLCache data: the CacheEntry stored under each key
    links,        \* TTLCache order of its keys, the next to be evicted first
    cpc,          \* position of the caller in its cache or client operation
    ccall,        \* the operation and its arguments
    centry,       \* local `entry` of CacheManager.get / CacheManager.set
    cret,         \* what CacheManager.get returned, and when
    outcome,      \* what the operation returned or raised
    failing,      \* the transport times out on this many first attempts
    attempts,     \* transport attempts made by the current client operation
    lim0,         \* history: the limiter as the client operation found it
    promise,      \* history: key, value and expiry of the last set and the key it
                  \* evicted, until it is undone
    callers,      \* concurrent callers of one client: operation, position, outcome
    retry,        \* the RetryConfig and the last get_delay made on it
    admitted,     \* history: a time stamp for each unit of cost the bucket granted
    keygen,       \* the last generate_key call: prefix, parameters, key returned
    batch,        \* verify_pins_batch: its input, the results so far, whether it returned
    twin,         \* two limiters of one configuration given the same acquisitions,
                  \* one of them the helper calls as well; tokens as floats
    inval         \* the last invalidate_pattern: its pattern, the backend's keys and
                  \* values before it and after it

limVars == <<kind, rl_enabled, tokens, last_refill, requests>>
taskVars == <<pc, call, loc, wake, result, retval>>
histVars == <<granted, grants, taken, entry>>
cacheVars == <<enabled, store, links, promise>>
callVars == <<cpc, ccall, centry, cret, outcome>>
clientVars == <<failing, attempts, lim0>>
auxVars == <<callers, retry, admitted, keygen, batch, twin, inval>>
extVars == <<cacheVars, callVars, clientVars, auxVars>>
vars == <<now, limVars, taskVars, histVars, extVars>>

NoCall == [op |-> "none", cost |-> 0, block |-> TRUE, timeout |-> NoTimeout, start |-> 0]
NoLoc == [now |-> 0, add |-> 0]
NoEntry == [tokens |-> 0, last_refill |-> 0, requests |-> <<>>]

Parked == {"idle", "sleep", "done"}

(* ---------------- keys, values and records of the cache ---------------- *)

None == "None"
Values == {"v1", "v2"}
Prefixes == {"pin", "tcc", "taxpayer"}
Pins == {"P051234567A"}

\* cache.py:218-225  prefix and md5 of the parameters: distinct parameters under
\* one prefix, and distinct prefixes, give distinct keys
GenerateKey(prefix, pin) == <<prefix, pin>>

Keys == {GenerateKey(p, n) : p \in Prefixes, n \in Pins}
NoKey == <<"none", "none">>

\* a CacheEntry (value, expires_at) and the expiry the TTLCache gives its link
NoItem == [value |-> None, expires_at |-> 0, link_expires |-> 0]
NoRet == [value |-> None, expires_at |-> 0, time |-> 0, path |-> "none"]
NoPromise == [key |-> NoKey, value |-> None, expires_at |-> 0, evicted |-> NoKey]
NoCCall == [op |-> "none", key |-> NoKey, given |-> FALSE, ttl |-> 0]
NoLim == [tokens |-> 0, last_refill |-> 0, granted |-> 0]
\* RetryConfig() before any get_delay; delays are in 1/DelayScale seconds
DelayScale == 4 * JitterSteps
NoRetry == [initial_delay |-> initial_delay, max_delay |-> max_delay,
            exponential_base |-> exponential_base, attempt |-> 0 - 1, draw |-> 0,
            delay |-> 0, raised |-> "none"]
\* a concurrent caller before its call
NoCaller == [op |-> "none", key |-> NoKey, pc |-> "idle", hit |-> FALSE, took |-> 0,
             out |-> "none"]

\* the pair of limiters before they are built
NoTwin == [max_requests |-> 0, refill_rate |-> 0,
           polled |-> [tokens |-> 0, last_refill |-> 0],
           plain |-> [tokens |-> 0, last_refill |-> 0],
           helper |-> "none", out |-> <<"none", "none">>]

\* keys as the strings they are, character by character: two keys of the
\* prefix "pin", one of a prefix that ends in "pin", one of another prefix
KeyTexts == {<<"p", "i", "n", ":", "a">>, <<"p", "i", "n", ":", "b">>,
             <<"v", "p", "i", "n", ":", "a">>, <<"t", "c", "c", ":", "a">>}
\* the patterns given to invalidate_pattern: "pin:*", "tcc:*", "*"
PatternTexts == {<<"p", "i", "n", ":", "*">>, <<"t", "c", "c", ":", "*">>, <<"*">>}
\* no invalidate_pattern was made yet
NoInval == [pattern |-> <<>>, before |-> [k \in KeyTexts |-> None],
            after |-> [k \in KeyTexts |-> None]]

\* the ttl arguments of set and get_or_set, in seconds: negative, zero, shorter
\* than the default, longer than the default
TtlArgs == {0 - 1, 0, 1, cache_ttl + 1}

InLinks(lk, k) == \E i \in 1..Len(lk) : lk[i] = k

Without(lk, k) ==
    LET keep(x) == x # k
    IN  SelectSeq(lk, keep)

\* cache.py:96  TTLCache(maxsize, ttl): a key is in the cache until its link expires
TTLContains(st, lk, k, t) == InLinks(lk, k) /\ t < st[k].link_expires

\* TTLCache.expire: every mutation first drops the keys whose link has expired
TTLExpire(st, lk, t) ==
    LET live(x) == t < st[x].link_expires
    IN  [store |-> [x \in Keys |-> IF InLinks(lk, x) /\ live(x) THEN st[x] ELSE NoItem],
         links |-> SelectSeq(lk, live)]

\* faulty variant of TTLSetItem: a full cache takes one more
TTLSetItemGrowing(st, lk, k, item, t) ==
    LET e == TTLExpire(st, lk, t)
    IN  [store |-> [e.store EXCEPT ![k] =
                       [item EXCEPT !.link_expires = t + cache_ttl * TicksPerSecond]],
         links |-> Append(Without(e.links, k), k),
         evicted |-> NoKey]

\* cache.py:130  self._cache[key] = value: the ttl argument is not used; the
\* link expires config.ttl after the store, and a full cache evicts its first
\* key, which the result names
TTLSetItem(st, lk, k, item, t) ==
    LET e == TTLExpire(st, lk, t)
        full == ~InLinks(e.links, k) /\ Len(e.links) >= max_size
        lk1 == IF full THEN Tail(e.links) ELSE e.links
        st1 == IF full THEN [e.store EXCEPT ![Head(e.links)] = NoItem] ELSE e.store
    IN  [store |-> [st1 EXCEPT ![k] =
                       [item EXCEPT !.link_expires = t + cache_ttl * TicksPerSecond]],
         links |-> Append(Without(lk1, k), k),
         evicted |-> IF full THEN Head(e.links) ELSE NoKey]

\* cache.py:143-144  if key in self._cache: del self._cache[key]
TTLDelItem(st, lk, k, t) ==
    IF TTLContains(st, lk, k, t)
    THEN [store |-> [st EXCEPT ![k] = NoItem], links |-> Without(lk, k)]
    ELSE [store |-> st, links |-> lk]

\* faulty variant of IsExpired: an entry still counts as fresh at its expiry instant
IsExpiredLate(e, t) == t > e.expires_at

\* cache.py:166-167  CacheEntry.is_expired
IsExpired(e, t) == t >= e.expires_at

\* cache.py:274  ttl = ttl or self.config.ttl
EffectiveTtl(given, ttl) == IF given /\ ttl # 0 THEN ttl ELSE cache_ttl

(* ---------------- token bucket: pure parts ---------------- *)

\* rate_limiter.py:78-81  elapsed * refill_rate, in 1/Scale tokens
TokensToAdd(t_now, t_last) == (t_now - t_last) * max_requests

\* faulty variant of RefillCap: the elapsed time's tokens are never added
RefillForgotten(tok, add) == Min(tok, Capacity)

\* faulty variant of RefillCap: the cap at max_requests is forgotten
RefillCapNoMin(tok, add) == tok + add

\* rate_limiter.py:84  min(tokens + tokens_to_add, max_requests)
RefillCap(tok, add) == Min(tok + add, Capacity)

\* faulty variant of Enough: the last token is never given out
EnoughStrict(tok, cost) == tok > cost * Scale

\* rate_limiter.py:122  self.tokens >= tokens
Enough(tok, cost) == tok >= cost * Scale

\* faulty variant of TimedOut: a call without a timeout counts as timed out
TimedOutUnset(c, t_now) == c.timeout = NoTimeout \/ t_now - c.start >= c.timeout

\* rate_limiter.py:133-135  timeout is not None and elapsed >= timeout
TimedOut(c, t_now) == c.timeout # NoTimeout /\ t_now - c.start >= c.timeout

\* rate_limiter.py:140  (tokens - self.tokens) / self.refill_rate, rounded up to a tick
RawWait(tok, cost) == CeilDiv(cost * Scale - tok, max_requests)

\* rate_limiter.py:141  min(wait_time, 1.0)
WaitTime(tok, cost) == Min(RawWait(tok, cost), TicksPerSecond)

(* ---------------- token bucket: steps of a call ---------------- *)

\* faulty variant of Bypassed: the enabled flag is not looked at
BypassedNever(op) == FALSE

\* rate_limiter.py:112-113, 163-164, 296-297, 346-347  "if not self.enabled:
\* return True" opens acquire and acquire_async of both classes, and no
\* other method
Bypassed(op) == op \in {"acquire", "acquire_async"} /\ ~rl_enabled

TBOps == {"acquire", "acquire_async", "get_available_tokens", "get_wait_time"}

\* rate_limiter.py:112-115, 163-166, 216, 233: entry of a call that refills first.
\* acquire_async has no block parameter: it always waits.  start_time is read
\* only under "timeout is not None", so it is kept only for a timed call.
TBCall(t, op, c, b, to) ==
    /\ kind = "tb"
    /\ pc[t] = "idle"
    /\ op \in TBOps
    /\ op = "acquire_async" => b
    /\ op \in {"get_available_tokens", "get_wait_time"} => (b /\ to = NoTimeout)
    /\ op = "get_available_tokens" => c = 1
    /\ call' = [call EXCEPT ![t] = [op |-> op, cost |-> c, block |-> b, timeout |-> to,
                                     start |-> IF to # NoTimeout /\ ~Bypassed(op)
                                               THEN now ELSE 0]]
    /\ pc' = [pc EXCEPT ![t] = IF Bypassed(op) THEN "done" ELSE "refill_now"]
    /\ result' = [result EXCEPT ![t] = IF Bypassed(op) THEN "True" ELSE "none"]
    /\ retval' = [retval EXCEPT ![t] = 0]
    /\ taken' = [taken EXCEPT ![t] = 0]
    /\ UNCHANGED <<now, limVars, loc, wake, granted, grants>>

\* rate_limiter.py:77  now = time.time()
RefillNow(t) ==
    /\ pc[t] = "refill_now"
    /\ loc' = [loc EXCEPT ![t].now = now]
    /\ pc' = [pc EXCEPT ![t] = "refill_elapsed"]
    /\ UNCHANGED <<now, limVars, call, wake, result, retval, histVars>>

\* rate_limiter.py:78-81  elapsed = now - self.last_refill; tokens_to_add = elapsed * rate
RefillElapsed(t) ==
    /\ pc[t] = "refill_elapsed"
    /\ loc' = [loc EXCEPT ![t].add = TokensToAdd(loc[t].now, last_refill)]
    /\ pc' = [pc EXCEPT ![t] = "refill_add"]
    /\ UNCHANGED <<now, limVars, call, wake, result, retval, histVars>>

\* rate_limiter.py:84  self.tokens = min(self.tokens + tokens_to_add, self.max_requests)
RefillAdd(t) ==
    /\ pc[t] = "refill_add"
    /\ tokens' = RefillCap(tokens, loc[t].add)
    /\ pc' = [pc EXCEPT ![t] = "refill_stamp"]
    /\ UNCHANGED <<now, kind, rl_enabled, last_refill, requests, call, loc, wake, result, retval,
                   granted, grants, taken, entry>>

\* where a call continues after _refill_tokens returned
AfterRefill(op) ==
    CASE op \in {"acquire", "acquire_async"} -> "check"
      [] op = "get_available_tokens" -> "ret_available"
      [] OTHER -> "ret_wait"

\* rate_limiter.py:85  self.last_refill = now
RefillStamp(t) ==
    /\ pc[t] = "refill_stamp"
    /\ last_refill' = loc[t].now
    /\ loc' = [loc EXCEPT ![t] = NoLoc]
    /\ pc' = [pc EXCEPT ![t] = AfterRefill(call[t].op)]
    /\ UNCHANGED <<now, kind, rl_enabled, tokens, requests, call, wake, result, retval, histVars>>

\* faulty variant of Check: the timeout is looked at before the tokens
CheckTimeoutFirst(t) ==
    /\ pc[t] = "check"
    /\ pc' = [pc EXCEPT ![t] = IF TimedOut(call[t], now) THEN "fail"
                                ELSE IF Enough(tokens, call[t].cost) THEN "take" ELSE "fail"]
    /\ UNCHANGED <<now, limVars, call, loc, wake, result, retval, histVars>>

\* rate_limiter.py:122, 173  if self.tokens >= tokens
Check(t) ==
    /\ pc[t] = "check"
    /\ pc' = [pc EXCEPT ![t] = IF Enough(tokens, call[t].cost) THEN "take" ELSE "fail"]
    /\ UNCHANGED <<now, limVars, call, loc, wake, result, retval, histVars>>

\* rate_limiter.py:123  self.tokens -= tokens
Subtract(tok, cost) == tok - cost * Scale

\* rate_limiter.py:123-125, 174-176  subtract and return True
Take(t) ==
    /\ pc[t] = "take"
    /\ tokens' = Subtract(tokens, call[t].cost)
    /\ granted' = granted + call[t].cost * Scale
    /\ taken' = [taken EXCEPT ![t] = taken[t] + (tokens - tokens')]
    /\ result' = [result EXCEPT ![t] = "True"]
    /\ pc' = [pc EXCEPT ![t] = "done"]
    /\ UNCHANGED <<now, kind, rl_enabled, last_refill, requests, call, loc, wake, retval,
                   grants, entry>>

\* exceptions.py:176-189, rate_limiter.py:130, 316  what comes with the
\* outcome: RateLimitExceededError(retry_after=int(self.window_seconds))
\* carries the whole seconds of the window, anything else nothing
Raised(out) ==
    IF out = "RateLimitExceededError" THEN WindowTicks \div TicksPerSecond ELSE 0

\* faulty variant of FailOutcome: a non-blocking call that finds too little returns False
FailOutcomeQuiet(c, tok, t_now) ==
    IF ~c.block \/ TimedOut(c, t_now) THEN "False"
    ELSE IF WaitTime(tok, c.cost) < 0 THEN "ValueError"
    ELSE "sleep"

\* outcome of the part of the loop body after a failed capacity check:
\* rate_limiter.py:128-130 (raise), 133-137 (return False), 140-144 (sleep);
\* time.sleep of a negative length raises ValueError
FailOutcome(c, tok, t_now) ==
    IF ~c.block THEN "RateLimitExceededError"
    ELSE IF TimedOut(c, t_now) THEN "False"
    ELSE IF WaitTime(tok, c.cost) < 0 THEN "ValueError"
    ELSE "sleep"

\* faulty variant of FailOutcomeAsync: the timeout is not looked at
FailOutcomeAsyncUntimed(c, tok, t_now) == "sleep"

\* the same part of the loop body of acquire_async: rate_limiter.py:179-183
\* (return False), 186-190 (sleep); asyncio.sleep of a negative length
\* returns at once
FailOutcomeAsync(c, tok, t_now) ==
    IF TimedOut(c, t_now) THEN "False" ELSE "sleep"

\* faulty variant of Fail: a wait that times out gives up the tokens it had gathered
FailPartial(t) ==
    /\ pc[t] = "fail"
    /\ LET out == IF call[t].op = "acquire_async"
                  THEN FailOutcomeAsync(call[t], tokens, now)
                  ELSE FailOutcome(call[t], tokens, now)
       IN  /\ IF out = "sleep"
              THEN /\ wake' = [wake EXCEPT ![t] = now + WaitTime(tokens, call[t].cost)]
                   /\ pc' = [pc EXCEPT ![t] = "sleep"]
                   /\ UNCHANGED <<result, tokens>>
              ELSE /\ result' = [result EXCEPT ![t] = out]
                   /\ pc' = [pc EXCEPT ![t] = "done"]
                   /\ tokens' = IF out = "False" THEN 0 ELSE tokens
                   /\ UNCHANGED wake
           /\ retval' = [retval EXCEPT ![t] = Raised(out)]
    /\ UNCHANGED <<now, kind, rl_enabled, last_refill, requests, call, loc, histVars>>

\* rate_limiter.py:127-144 (acquire), 178-190 (acquire_async)
Fail(t) ==
    /\ pc[t] = "fail"
    /\ LET out == IF call[t].op = "acquire_async"
                  THEN FailOutcomeAsync(call[t], tokens, now)
                  ELSE FailOutcome(call[t], tokens, now)
       IN  /\ IF out = "sleep"
              THEN /\ wake' = [wake EXCEPT ![t] = now + WaitTime(tokens, call[t].cost)]
                   /\ pc' = [pc EXCEPT ![t] = "sleep"]
                   /\ UNCHANGED result
              ELSE /\ result' = [result EXCEPT ![t] = out]
                   /\ pc' = [pc EXCEPT ![t] = "done"]
                   /\ UNCHANGED wake
           /\ retval' = [retval EXCEPT ![t] = Raised(out)]
    /\ UNCHANGED <<now, limVars, call, loc, histVars>>

\* rate_limiter.py:144, 190  the sleep lasts at least wait_time; then the loop repeats
TBWake(t) ==
    /\ kind = "tb"
    /\ pc[t] = "sleep"
    /\ now >= wake[t]
    /\ pc' = [pc EXCEPT ![t] = "refill_now"]
    /\ wake' = [wake EXCEPT ![t] = 0]
    /\ UNCHANGED <<now, limVars, call, loc, result, retval, histVars>>

\* rate_limiter.py:217  return int(self.tokens)
RetAvailable(t) ==
    /\ pc[t] = "ret_available"
    /\ retval' = [retval EXCEPT ![t] = tokens \div Scale]
    /\ pc' = [pc EXCEPT ![t] = "done"]
    /\ UNCHANGED <<now, limVars, call, loc, wake, result, histVars>>

\* rate_limiter.py:235-238  0.0 if enough, else (tokens - self.tokens) / refill_rate
RetWait(t) ==
    /\ pc[t] = "ret_wait"
    /\ retval' = [retval EXCEPT ![t] =
                    IF Enough(tokens, call[t].cost) THEN 0 ELSE RawWait(tokens, call[t].cost)]
    /\ pc' = [pc EXCEPT ![t] = "done"]
    /\ UNCHANGED <<now, limVars, call, loc, wake, result, histVars>>

\* rate_limiter.py:192-203  reset()
Reset(t) ==
    /\ kind = "tb"
    /\ pc[t] = "idle"
    /\ tokens' = Capacity
    /\ last_refill' = now
    /\ call' = [call EXCEPT ![t] = [NoCall EXCEPT !.op = "reset"]]
    /\ pc' = [pc EXCEPT ![t] = "done"]
    /\ result' = [result EXCEPT ![t] = "none"]
    /\ retval' = [retval EXCEPT ![t] = 0]
    /\ taken' = [taken EXCEPT ![t] = 0]
    /\ granted' = 0
    /\ entry' = [entry EXCEPT ![t] = NoEntry]
    /\ UNCHANGED <<now, kind, rl_enabled, requests, loc, wake, grants>>

\* the caller has the outcome: the call's frame is gone
Return(t) ==
    /\ pc[t] = "done"
    /\ pc' = [pc EXCEPT ![t] = "idle"]
    /\ call' = [call EXCEPT ![t] = NoCall]
    /\ result' = [result EXCEPT ![t] = "none"]
    /\ retval' = [retval EXCEPT ![t] = 0]
    /\ taken' = [taken EXCEPT ![t] = 0]
    /\ entry' = [entry EXCEPT ![t] = NoEntry]
    /\ UNCHANGED <<now, limVars, loc, wake, granted, grants>>

\* the statements of one acquire / acquire_async call, in program order
AcquireStep(t) ==
    \/ RefillNow(t)
    \/ RefillElapsed(t)
    \/ RefillAdd(t)
    \/ RefillStamp(t)
    \/ Check(t)
    \/ Take(t)
    \/ Fail(t)
    \/ TBWake(t)

\* the statements of the helpers after their refill
HelperStep(t) ==
    \/ RetAvailable(t)
    \/ RetWait(t)

(* ---------------- sliding window ---------------- *)

\* faulty variant of Trim: nothing is dropped
TrimNothing(reqs, t_now) == reqs

RECURSIVE TrimInclusive(_, _)
\* faulty variant of Trim: a request exactly window_seconds old is dropped as well
TrimInclusive(reqs, t_now) ==
    IF reqs # <<>> /\ reqs[1] <= t_now - WindowTicks
    THEN TrimInclusive(Tail(reqs), t_now)
    ELSE reqs

RECURSIVE Trim(_, _)
\* rate_limiter.py:277-280  while self.requests and self.requests[0] < cutoff: popleft()
Trim(reqs, t_now) ==
    IF reqs # <<>> /\ reqs[1] < t_now - WindowTicks
    THEN Trim(Tail(reqs), t_now)
    ELSE reqs

\* rate_limiter.py:306  len(self.requests) < self.max_requests
HasRoom(reqs) == Len(reqs) < max_requests

\* 0.1 s, rounded up to a tick
MinWaitTicks == (TicksPerSecond + 9) \div 10

\* rate_limiter.py:326-331  time until the oldest request expires, clamped to [0.1, 1.0]
SWWaitTime(reqs, t_now) ==
    IF reqs # <<>>
    THEN Max(MinWaitTicks, Min((reqs[1] + WindowTicks) - t_now, TicksPerSecond))
    ELSE MinWaitTicks

SWOps == {"acquire", "acquire_async", "get_request_count"}

\* rate_limiter.py:296-299, 346-349, 389: entry of a call that trims first
SWCall(t, op, b, to) ==
    /\ kind = "sw"
    /\ pc[t] = "idle"
    /\ op \in SWOps
    /\ op = "acquire_async" => b
    /\ op = "get_request_count" => (b /\ to = NoTimeout)
    /\ call' = [call EXCEPT ![t] = [op |-> op, cost |-> 1, block |-> b, timeout |-> to,
                                     start |-> IF to # NoTimeout /\ ~Bypassed(op)
                                               THEN now ELSE 0]]
    /\ pc' = [pc EXCEPT ![t] = IF Bypassed(op) THEN "done" ELSE "sw_clean"]
    /\ result' = [result EXCEPT ![t] = IF Bypassed(op) THEN "True" ELSE "none"]
    /\ retval' = [retval EXCEPT ![t] = 0]
    /\ taken' = [taken EXCEPT ![t] = 0]
    /\ UNCHANGED <<now, limVars, loc, wake, granted, grants>>

\* rate_limiter.py:274-280  _clean_old_requests()
SWClean(t) ==
    /\ pc[t] = "sw_clean"
    /\ requests' = Trim(requests, now)
    /\ pc' = [pc EXCEPT ![t] = IF call[t].op = "get_request_count" THEN "ret_count"
                                ELSE "sw_check"]
    /\ UNCHANGED <<now, kind, rl_enabled, tokens, last_refill, call, loc, wake, result, retval,
                   histVars>>

\* rate_limiter.py:306, 354  if len(self.requests) < self.max_requests
SWCheck(t) ==
    /\ pc[t] = "sw_check"
    /\ pc' = [pc EXCEPT ![t] = IF HasRoom(requests) THEN "sw_append" ELSE "sw_fail"]
    /\ UNCHANGED <<now, limVars, call, loc, wake, result, retval, histVars>>

\* rate_limiter.py:307-311, 355-359  self.requests.append(time.time()); return True
SWAppend(t) ==
    /\ pc[t] = "sw_append"
    /\ requests' = Append(requests, now)
    /\ grants' = Append(grants, now)
    /\ taken' = [taken EXCEPT ![t] = taken[t] + 1]
    /\ result' = [result EXCEPT ![t] = "True"]
    /\ pc' = [pc EXCEPT ![t] = "done"]
    /\ UNCHANGED <<now, kind, rl_enabled, tokens, last_refill, call, loc, wake, retval, granted,
                   entry>>

\* rate_limiter.py:314-316 (raise), 319-323 (return False), 326-334 (sleep)
SWFailOutcome(c, t_now) ==
    IF ~c.block THEN "RateLimitExceededError"
    ELSE IF TimedOut(c, t_now) THEN "False"
    ELSE "sleep"

\* the same of acquire_async: rate_limiter.py:361-365 (return False),
\* 367-375 (sleep)
SWFailOutcomeAsync(c, t_now) ==
    IF TimedOut(c, t_now) THEN "False" ELSE "sleep"

\* rate_limiter.py:313-334 (acquire), 361-375 (acquire_async)
SWFail(t) ==
    /\ pc[t] = "sw_fail"
    /\ LET out == IF call[t].op = "acquire_async"
                  THEN SWFailOutcomeAsync(call[t], now)
                  ELSE SWFailOutcome(call[t], now)
       IN  /\ IF out = "sleep"
              THEN /\ wake' = [wake EXCEPT ![t] = now + SWWaitTime(requests, now)]
                   /\ pc' = [pc EXCEPT ![t] = "sleep"]
                   /\ UNCHANGED result
              ELSE /\ result' = [result EXCEPT ![t] = out]
                   /\ pc' = [pc EXCEPT ![t] = "done"]
                   /\ UNCHANGED wake
           /\ retval' = [retval EXCEPT ![t] = Raised(out)]
    /\ UNCHANGED <<now, limVars, call, loc, histVars>>

\* rate_limiter.py:334, 375  the sleep lasts at least wait_time; then the loop repeats
SWWake(t) ==
    /\ kind = "sw"
    /\ pc[t] = "sleep"
    /\ now >= wake[t]
    /\ pc' = [pc EXCEPT ![t] = "sw_clean"]
    /\ wake' = [wake EXCEPT ![t] = 0]
    /\ UNCHANGED <<now, limVars, call, loc, result, retval, histVars>>

\* rate_limiter.py:390  return len(self.requests)
RetCount(t) ==
    /\ pc[t] = "ret_count"
    /\ retval' = [retval EXCEPT ![t] = Len(requests)]
    /\ pc' = [pc EXCEPT ![t] = "done"]
    /\ UNCHANGED <<now, limVars, call, loc, wake, result, histVars>>

\* the statements of one sliding-window call, in program order
SWStep(t) ==
    \/ SWClean(t)
    \/ SWCheck(t)
    \/ SWAppend(t)
    \/ SWFail(t)
    \/ SWWake(t)
    \/ RetCount(t)

(* ---------------- clock, initial state, specifications ---------------- *)

\* time.time() is non-decreasing.  A key whose link has expired is invisible to
\* every TTLCache operation the backend uses and is dropped by the next store;
\* the model drops it as its time comes.
Tick ==
    /\ now < MaxTime
    /\ now' = now + 1
    /\ store' = TTLExpire(store, links, now + 1).store
    /\ links' = TTLExpire(store, links, now + 1).links
    /\ UNCHANGED <<limVars, taskVars, histVars, auxVars, enabled, promise, callVars, clientVars>>

\* rate_limiter.py:42-68, 254-272, cache.py:182-201: state after construction
\* at time 0 of a limiter of class k and a cache manager with enabled = en
InitWith(k, en, le) ==
    /\ now = 0
    /\ kind = k
    /\ rl_enabled = le
    /\ tokens = Capacity
    /\ last_refill = 0
    /\ requests = <<>>
    /\ pc = [t \in Tasks |-> "idle"]
    /\ call = [t \in Tasks |-> NoCall]
    /\ loc = [t \in Tasks |-> NoLoc]
    /\ wake = [t \in Tasks |-> 0]
    /\ result = [t \in Tasks |-> "none"]
    /\ retval = [t \in Tasks |-> 0]
    /\ granted = 0
    /\ grants = <<>>
    /\ taken = [t \in Tasks |-> 0]
    /\ entry = [t \in Tasks |-> NoEntry]
    /\ enabled = en
    /\ store = [x \in Keys |-> NoItem]
    /\ links = <<>>
    /\ cpc = "idle"
    /\ ccall = NoCCall
    /\ centry = NoItem
    /\ cret = NoRet
    /\ outcome = "none"
    /\ failing = 0
    /\ attempts = 0
    /\ lim0 = NoLim
    /\ promise = NoPromise
    /\ callers = [t \in Tasks |-> NoCaller]
    /\ retry = NoRetry
    /\ admitted = <<>>
    /\ keygen = [prefix |-> "none", kwargs |-> <<>>, key |-> NoKey]
    /\ batch = [mode |-> "none", pins |-> <<>>, results |-> <<>>, returned |-> FALSE]
    /\ twin = NoTwin
    /\ inval = NoInval

\* the same with the limiter enabled (RateLimitConfig.enabled defaults to True)
InitState(k, en) == InitWith(k, en, TRUE)

\* a limiter of either class
Init == \E k \in {"tb", "sw"} : InitState(k, TRUE)

\* history: the limiter's state as a timed call of task t finds it
Snapshot(t, to) ==
    entry' = [entry EXCEPT ![t] = IF to = NoTimeout THEN NoEntry
                                  ELSE [tokens |-> tokens, last_refill |-> last_refill,
                                        requests |-> requests]]

\* the one caller of the sequential specification
Main == CHOOSE t \in Tasks : \A u \in Tasks : t <= u

(* ---------------- the cache manager over its in-memory backend ---------------- *)

CacheOps == {"get", "set", "delete", "clear", "get_or_set"}
ClientOps == {"verify_pin", "verify_tcc", "get_taxpayer_details"}

\* faulty variant of AfterGet: a client operation goes on to the limiter even on a hit
AfterGetAlways(op, v) ==
    CASE op = "get" -> "done"
      [] op = "get_or_set" -> IF v # None THEN "done" ELSE "factory"
      [] OTHER -> "acquire"

\* faulty variant of AfterGet: a client operation that missed sends its request
\* without asking the limiter
AfterGetUnlimited(op, v) ==
    CASE op = "get" -> "done"
      [] op = "get_or_set" -> IF v # None THEN "done" ELSE "factory"
      [] OTHER -> IF v # None THEN "done" ELSE "transport"

\* where the caller of CacheManager.get goes with the value it got:
\* cache.py:340-343 (get_or_set), client.py:162-167, 576-582 (cacheable reads)
AfterGet(op, v) ==
    CASE op = "get" -> "done"
      [] op = "get_or_set" -> IF v # None THEN "done" ELSE "factory"
      [] OTHER -> IF v # None THEN "done" ELSE "acquire"

\* what the operation returns when CacheManager.get was its last step
GetOutcome(op, v) == IF AfterGet(op, v) = "done" THEN v ELSE "none"

\* cache.py:238-244  the operation op starts with CacheManager.get(k):
\* if not self.enabled: return None; entry = self.backend.get(key)
GetBackend(op, k, g, ttl) ==
    /\ cpc = "idle"
    /\ ccall' = [op |-> op, key |-> k, given |-> g, ttl |-> ttl]
    /\ IF enabled /\ TTLContains(store, links, k, now)
       THEN /\ centry' = store[k]
            /\ links' = Append(Without(links, k), k)
            /\ cpc' = "get_expired"
            /\ UNCHANGED <<cret, outcome>>
       ELSE /\ cret' = [NoRet EXCEPT !.time = now,
                                     !.path = IF enabled THEN "miss" ELSE "disabled"]
            /\ cpc' = AfterGet(op, None)
            /\ outcome' = GetOutcome(op, None)
            /\ UNCHANGED <<centry, links>>
    /\ UNCHANGED <<now, limVars, taskVars, histVars, auxVars, enabled, store, promise>>

\* CacheManager.get(k) and CacheManager.get_or_set(k, factory_fn, ttl)
CacheGet(op, k, g, ttl) ==
    /\ op \in {"get", "get_or_set"}
    /\ op = "get" => (~g /\ ttl = 0)
    /\ ~g => ttl = 0
    /\ GetBackend(op, k, g, ttl)
    /\ UNCHANGED clientVars

\* cache.py:246-253  an expired entry is deleted and None returned, a fresh one
\* gives its value
GetExpired ==
    /\ cpc = "get_expired"
    /\ IF IsExpired(centry, now)
       THEN LET d == TTLDelItem(store, links, ccall.key, now)
            IN  /\ store' = d.store
                /\ links' = d.links
                /\ cret' = [NoRet EXCEPT !.time = now, !.path = "expired"]
                /\ cpc' = AfterGet(ccall.op, None)
                /\ outcome' = GetOutcome(ccall.op, None)
       ELSE /\ cret' = [value |-> centry.value, expires_at |-> centry.expires_at,
                        time |-> now, path |-> "hit"]
            /\ cpc' = AfterGet(ccall.op, centry.value)
            /\ outcome' = GetOutcome(ccall.op, centry.value)
            /\ UNCHANGED <<store, links>>
    /\ centry' = NoItem
    /\ UNCHANGED <<now, limVars, taskVars, histVars, auxVars, enabled, promise, ccall, clientVars>>

\* what an operation returns after its CacheManager.set of value v
SetOutcome(op, v) == IF op = "set" THEN None ELSE v

\* faulty variant of SetEntry: the enabled flag is not looked at
SetEntryUnswitched(op, k, v, g, ttl) ==
    /\ IF EffectiveTtl(g, ttl) > 0
       THEN LET e == [value |-> v,
                      expires_at |-> now + EffectiveTtl(g, ttl) * TicksPerSecond,
                      link_expires |-> 0]
                w == TTLSetItem(store, links, k, e, now)
            IN  /\ store' = w.store
                /\ links' = w.links
                /\ promise' = [key |-> k, value |-> v, expires_at |-> e.expires_at,
                               evicted |-> w.evicted]
       ELSE UNCHANGED <<store, links, promise>>
    /\ cpc' = "done"
    /\ outcome' = SetOutcome(op, v)

\* faulty variant of SetEntry: a value of None is not stored
SetEntryNoneSkipped(op, k, v, g, ttl) ==
    /\ IF enabled /\ EffectiveTtl(g, ttl) > 0 /\ v # None
       THEN LET e == [value |-> v,
                      expires_at |-> now + EffectiveTtl(g, ttl) * TicksPerSecond,
                      link_expires |-> 0]
                w == TTLSetItem(store, links, k, e, now)
            IN  /\ store' = w.store
                /\ links' = w.links
                /\ promise' = [key |-> k, value |-> v, expires_at |-> e.expires_at,
                               evicted |-> w.evicted]
       ELSE UNCHANGED <<store, links, promise>>
    /\ cpc' = "done"
    /\ outcome' = SetOutcome(op, v)

\* cache.py:271-284  CacheManager.set(k, v, ttl): disabled or non-positive ttl
\* stores nothing; otherwise entry = CacheEntry(value, expires_at = time.time()
\* + ttl) goes to the backend, whose clock reads the same instant
SetEntry(op, k, v, g, ttl) ==
    /\ IF enabled /\ EffectiveTtl(g, ttl) > 0
       THEN LET e == [value |-> v,
                      expires_at |-> now + EffectiveTtl(g, ttl) * TicksPerSecond,
                      link_expires |-> 0]
                w == TTLSetItem(store, links, k, e, now)
            IN  /\ store' = w.store
                /\ links' = w.links
                /\ promise' = [key |-> k, value |-> v, expires_at |-> e.expires_at,
                               evicted |-> w.evicted]
       ELSE UNCHANGED <<store, links, promise>>
    /\ cpc' = "done"
    /\ outcome' = SetOutcome(op, v)

\* CacheManager.set(k, v) and CacheManager.set(k, v, ttl)
CacheSet(k, v, g, ttl) ==
    /\ cpc = "idle"
    /\ ~g => ttl = 0
    /\ ccall' = [op |-> "set", key |-> k, given |-> g, ttl |-> ttl]
    /\ SetEntry("set", k, v, g, ttl)
    /\ UNCHANGED <<now, limVars, taskVars, histVars, auxVars, enabled, centry, cret, clientVars>>

\* cache.py:345-353  get_or_set on a miss: value = factory_fn(), then
\* self.set(key, value, ttl)
Factory(v) ==
    /\ cpc = "factory"
    /\ SetEntry(ccall.op, ccall.key, v, ccall.given, ccall.ttl)
    /\ UNCHANGED <<now, limVars, taskVars, histVars, auxVars, enabled, ccall, centry, cret,
                   clientVars>>

\* cache.py:286-302  CacheManager.delete(k)
Delete(k) ==
    /\ cpc = "idle"
    /\ ccall' = [NoCCall EXCEPT !.op = "delete", !.key = k]
    /\ LET d == TTLDelItem(store, links, k, now)
       IN  /\ store' = IF enabled THEN d.store ELSE store
           /\ links' = IF enabled THEN d.links ELSE links
    /\ promise' = IF promise.key = k THEN NoPromise ELSE promise
    /\ cpc' = "done"
    /\ outcome' = None
    /\ UNCHANGED <<now, limVars, taskVars, histVars, auxVars, enabled, centry, cret, clientVars>>

\* cache.py:304-317  CacheManager.clear()
Clear ==
    /\ cpc = "idle"
    /\ ccall' = [NoCCall EXCEPT !.op = "clear"]
    /\ store' = IF enabled THEN [k \in Keys |-> NoItem] ELSE store
    /\ links' = IF enabled THEN <<>> ELSE links
    /\ promise' = NoPromise
    /\ cpc' = "done"
    /\ outcome' = None
    /\ UNCHANGED <<now, limVars, taskVars, histVars, auxVars, enabled, centry, cret, clientVars>>

\* the patterns given to invalidate_pattern: one prefix ("pin:*"), or everything ("*")
Patterns == Prefixes \cup {"*"}

\* cache.py:374-377  pattern.replace("*", "") in key, the key being prefix:digest;
\* among the prefixes the clients use none is part of another, so that the
\* pattern of a prefix is found in the keys of that prefix only
Matches(p, k) == p = "*" \/ k[1] = p

\* cache.py:355-380  CacheManager.invalidate_pattern(p) over the in-memory
\* backend: self.delete(key) for every key of the backend that matches
InvalidatePattern(p) ==
    /\ cpc = "idle"
    /\ ccall' = [NoCCall EXCEPT !.op = "invalidate_pattern", !.key = <<p, "*">>]
    /\ LET gone == {k \in Keys : enabled /\ TTLContains(store, links, k, now) /\ Matches(p, k)}
           keep(x) == x \notin gone
       IN  /\ store' = [k \in Keys |-> IF k \in gone THEN NoItem ELSE store[k]]
           /\ links' = SelectSeq(links, keep)
    /\ promise' = IF promise.key \in Keys /\ Matches(p, promise.key) THEN NoPromise ELSE promise
    /\ cpc' = "done"
    /\ outcome' = None
    /\ UNCHANGED <<now, limVars, taskVars, histVars, auxVars, enabled, centry, cret, clientVars>>

\* the operation has returned; the caller is free for the next one
CReturn ==
    /\ cpc = "done"
    /\ cpc' = "idle"
    /\ ccall' = NoCCall
    /\ cret' = NoRet
    /\ outcome' = "none"
    /\ failing' = 0
    /\ attempts' = 0
    /\ lim0' = NoLim
    /\ UNCHANGED <<now, limVars, taskVars, histVars, auxVars, cacheVars, centry>>

\* Any sequence of CacheManager operations, with time passing between and
\* inside them.
NextCache ==
    \/ Tick
    \/ \E op \in {"get", "get_or_set"}, k \in Keys, g \in BOOLEAN, ttl \in TtlArgs :
          CacheGet(op, k, g, ttl)
    \/ GetExpired
    \/ \E k \in Keys, v \in Values, g \in BOOLEAN, ttl \in TtlArgs : CacheSet(k, v, g, ttl)
    \/ \E v \in Values : Factory(v)
    \/ \E k \in Keys : Delete(k)
    \/ Clear
    \/ \E p \in Patterns : InvalidatePattern(p)
    \/ CReturn

\* The same, with computations that may return None.
NextAbsent ==
    \/ NextCache
    \/ Factory(None)

(* ---------------- the client's cacheable read operations ---------------- *)

\* client.py:159, 234, 435  the key prefix of each operation
Prefix(op) ==
    CASE op = "verify_pin" -> "pin"
      [] op = "verify_tcc" -> "tcc"
      [] OTHER -> "taxpayer"

\* client.py:125-164, 202-239, 408-440  the operation begins with the cache
\* lookup under its key; f is the number of first transport attempts that
\* time out
ClientCall(op, pin, f) ==
    /\ op \in ClientOps
    /\ pc[Main] = "idle"
    /\ GetBackend(op, GenerateKey(Prefix(op), pin), op = "get_taxpayer_details",
                  IF op = "get_taxpayer_details" THEN TaxpayerTtl ELSE 0)
    /\ failing' = f
    /\ attempts' = 0
    /\ lim0' = [tokens |-> tokens, last_refill |-> last_refill, granted |-> granted]

\* client.py:167, 301, 375 (KraClient) self.rate_limiter.acquire(), and
\* client.py:582, 662, 709 (AsyncKraClient) await
\* self.rate_limiter.acquire_async(): one token, waiting, no timeout
ClientAcquire(aop) ==
    /\ cpc = "acquire"
    /\ aop \in {"acquire", "acquire_async"}
    /\ TBCall(Main, aop, 1, TRUE, NoTimeout)
    /\ cpc' = "acquiring"
    /\ UNCHANGED <<entry, cacheVars, ccall, centry, cret, outcome, clientVars, auxVars>>

\* the statements of that acquire
ClientAcquiring ==
    /\ cpc = "acquiring"
    /\ AcquireStep(Main)
    /\ UNCHANGED extVars

\* acquire has returned; its value is not looked at
ClientAcquired ==
    /\ cpc = "acquiring"
    /\ Return(Main)
    /\ cpc' = "transport"
    /\ UNCHANGED <<cacheVars, ccall, centry, cret, outcome, clientVars, auxVars>>

\* what the transport does on its n-th attempt of the operation
TransportOutcome(n) == IF n <= failing THEN "timeout" ELSE "ok"

\* http_client.py:242-248, client.py:171-197, 303-324, 377-400  one request; a
\* timeout is raised to the caller as ApiTimeoutError; a response is parsed
\* into the result v, which a cacheable read puts into the cache
Transport(v) ==
    /\ cpc = "transport"
    /\ attempts' = attempts + 1
    /\ IF TransportOutcome(attempts + 1) = "timeout"
       THEN /\ outcome' = "ApiTimeoutError"
            /\ cpc' = "done"
            /\ UNCHANGED <<store, links, promise>>
       ELSE IF ccall.op \in ClientOps
       THEN SetEntry(ccall.op, ccall.key, v, ccall.given, ccall.ttl)
       ELSE /\ outcome' = v
            /\ cpc' = "done"
            /\ UNCHANGED <<store, links, promise>>
    /\ UNCHANGED <<now, limVars, taskVars, histVars, auxVars, enabled, ccall, centry, cret,
                   failing, lim0>>

\* http_client.py:136-174  _handle_response: what a response of this status
\* code becomes
HandleResponse(status) ==
    CASE status = 200 -> "ok"
      [] status = 401 -> "ApiAuthenticationError"
      [] status = 429 -> "RateLimitExceededError"
      [] OTHER -> "ApiError"

\* faulty variant of Rejected: the request is repeated until max_attempts are made
RejectedRetried(status) ==
    /\ cpc = "transport"
    /\ TransportOutcome(attempts + 1) = "ok"
    /\ status # 200
    /\ attempts' = attempts + 1
    /\ outcome' = HandleResponse(status)
    /\ cpc' = IF attempts + 1 < max_attempts THEN "transport" ELSE "done"
    /\ UNCHANGED <<now, limVars, taskVars, histVars, auxVars, cacheVars, ccall, centry, cret,
                   failing, lim0>>

\* faulty variant of Rejected: the token of a request that failed is given back
RejectedRefunded(status) ==
    /\ cpc = "transport"
    /\ TransportOutcome(attempts + 1) = "ok"
    /\ status # 200
    /\ attempts' = attempts + 1
    /\ outcome' = HandleResponse(status)
    /\ cpc' = "done"
    /\ tokens' = Min(tokens + Scale, Capacity)
    /\ UNCHANGED <<now, kind, rl_enabled, last_refill, requests, taskVars, histVars, auxVars,
                   cacheVars, ccall, centry, cret, failing, lim0>>

\* http_client.py:242-244, client.py:196-197  the server answers the request
\* with an error status: _handle_response raises, "except KraConnectError:
\* raise" passes it on, nothing is cached
Rejected(status) ==
    /\ cpc = "transport"
    /\ TransportOutcome(attempts + 1) = "ok"
    /\ status # 200
    /\ attempts' = attempts + 1
    /\ outcome' = HandleResponse(status)
    /\ cpc' = "done"
    /\ UNCHANGED <<now, limVars, taskVars, histVars, auxVars, cacheVars, ccall, centry, cret,
                   failing, lim0>>

\* the operations that are not cached
WriteOps == {"validate_eslip", "file_nil_return"}

\* faulty variant of WriteCall: the operation looks into the cache first, as a
\* cacheable read does
WriteCallCached(op, f) ==
    /\ op \in WriteOps
    /\ pc[Main] = "idle"
    /\ \E pin \in Pins : GetBackend(op, GenerateKey("pin", pin), FALSE, 0)
    /\ failing' = f
    /\ attempts' = 0
    /\ lim0' = [tokens |-> tokens, last_refill |-> last_refill, granted |-> granted]

\* client.py:295-301, 364-375, 659-662, 700-709  validate_eslip and
\* file_nil_return go from validation straight to the limiter; f is the
\* number of first transport attempts that time out
WriteCall(op, f) ==
    /\ op \in WriteOps
    /\ cpc = "idle"
    /\ pc[Main] = "idle"
    /\ ccall' = [NoCCall EXCEPT !.op = op]
    /\ cpc' = "acquire"
    /\ failing' = f
    /\ attempts' = 0
    /\ lim0' = [tokens |-> tokens, last_refill |-> last_refill, granted |-> granted]
    /\ UNCHANGED <<now, limVars, taskVars, histVars, auxVars, cacheVars, centry, cret, outcome>>

\* validators.py:46-54, 83-91, 120-141, 165-171, 198-204  what the validation
\* of the operation's arguments raises
ValidationErrors(op) ==
    CASE op = "verify_tcc" -> {"InvalidTccFormatError"}
      [] op = "validate_eslip" -> {"ValidationError"}
      [] op = "file_nil_return" -> {"InvalidPinFormatError", "ValidationError"}
      [] OTHER -> {"InvalidPinFormatError"}

\* faulty variant of InvalidCall: the arguments are validated after the token
\* was taken
InvalidCallLate(op) ==
    /\ op \in ClientOps \cup WriteOps
    /\ cpc = "idle"
    /\ pc[Main] = "idle"
    /\ Enough(tokens, 1)
    /\ tokens' = Subtract(tokens, 1)
    /\ ccall' = [NoCCall EXCEPT !.op = op]
    /\ cpc' = "done"
    /\ outcome' \in ValidationErrors(op)
    /\ failing' = 0
    /\ attempts' = 0
    /\ lim0' = [tokens |-> tokens, last_refill |-> last_refill, granted |-> granted]
    /\ UNCHANGED <<now, kind, rl_enabled, last_refill, requests, taskVars, histVars, auxVars,
                   cacheVars, centry, cret>>

\* client.py:154, 229, 296, 365-367, 430  the validation of the arguments
\* raises, before the cache and the limiter are touched
InvalidCall(op) ==
    /\ op \in ClientOps \cup WriteOps
    /\ cpc = "idle"
    /\ pc[Main] = "idle"
    /\ ccall' = [NoCCall EXCEPT !.op = op]
    /\ cpc' = "done"
    /\ outcome' \in ValidationErrors(op)
    /\ failing' = 0
    /\ attempts' = 0
    /\ lim0' = [tokens |-> tokens, last_refill |-> last_refill, granted |-> granted]
    /\ UNCHANGED <<now, limVars, taskVars, histVars, auxVars, cacheVars, centry, cret>>

\* http_client.py:100-105  a wait comes before every attempt after the first
RetryDelays == IF attempts > 0 THEN attempts - 1 ELSE 0

\* the client's statements take no time on the scale of the clock: time passes
\* between operations, in the limiter's sleep and in the transport
TickClient ==
    /\ cpc \in {"idle", "transport"} \/ pc[Main] = "sleep"
    /\ Tick

\* One client, one call at a time: cacheable reads in any order against a
\* transport that times out on some first attempts, with time passing.
NextClient ==
    \/ TickClient
    \/ \E op \in ClientOps, pin \in Pins, f \in 0..max_attempts : ClientCall(op, pin, f)
    \/ GetExpired
    \/ ClientAcquire("acquire")
    \/ ClientAcquiring
    \/ ClientAcquired
    \/ \E v \in Values : Transport(v)
    \/ \E status \in {401, 404, 429} : Rejected(status)
    \/ \E op \in ClientOps : InvalidCall(op)
    \/ CReturn

\* One client of either class, one call at a time: the operations that are
\* not cached, among verify_pin calls that fill the cache.
NextWrite ==
    \/ TickClient
    \/ \E pin \in Pins : ClientCall("verify_pin", pin, 0)
    \/ \E op \in WriteOps, f \in 0..1 : WriteCall(op, f)
    \/ \E op \in WriteOps \cup ClientOps : InvalidCall(op)
    \/ GetExpired
    \/ \E aop \in {"acquire", "acquire_async"} : ClientAcquire(aop)
    \/ ClientAcquiring
    \/ ClientAcquired
    \/ \E v \in Values : Transport(v)
    \/ Rejected(401)
    \/ CReturn

\* One caller at a time on one limiter of either class: every operation of
\* the limiter, called in any order, each call running to its return.
Next ==
    \/ Tick
    \/ \E op \in TBOps, c \in 1..MaxCost, b \in BOOLEAN, to \in Timeouts :
          TBCall(Main, op, c, b, to) /\ Snapshot(Main, to) /\ UNCHANGED extVars
    \/ AcquireStep(Main) /\ UNCHANGED extVars
    \/ HelperStep(Main) /\ UNCHANGED extVars
    \/ Reset(Main) /\ UNCHANGED extVars
    \/ Return(Main) /\ UNCHANGED extVars
    \/ \E op \in SWOps, b \in BOOLEAN, to \in Timeouts :
          SWCall(Main, op, b, to) /\ Snapshot(Main, to) /\ UNCHANGED extVars
    \/ SWStep(Main) /\ UNCHANGED extVars

Spec == Init /\ [][Next]_vars

\* the same caller on a limiter built with RateLimitConfig.enabled either way
SpecSwitch == (\E k \in {"tb", "sw"}, le \in BOOLEAN : InitWith(k, TRUE, le)) /\ [][Next]_vars

\* One caller at a time on one token bucket: acquisitions of cost 1 in every
\* mode, and reset.
NextBurst ==
    \/ Tick
    \/ \E op \in {"acquire", "acquire_async"}, b \in BOOLEAN, to \in Timeouts :
          TBCall(Main, op, 1, b, to) /\ Snapshot(Main, to) /\ UNCHANGED extVars
    \/ AcquireStep(Main) /\ UNCHANGED extVars
    \/ Reset(Main) /\ UNCHANGED extVars
    \/ Return(Main) /\ UNCHANGED extVars

SpecBurst == InitState("tb", TRUE) /\ [][NextBurst]_vars

(* ---------------- what one token bucket admits over time ---------------- *)

InitBucket == InitState("tb", TRUE)

\* history kept beside a step of the bucket: rate_limiter.py:122 a grant of
\* cost c is stamped c times with the time of the grant, which is the one
\* clock reading the granting pass made, in its refill (rate_limiter.py:77,
\* 87); rate_limiter.py:201 reset() starts the history afresh
Admit ==
    /\ admitted' = IF granted' > granted
                   THEN admitted \o [i \in 1..((granted' - granted) \div Scale) |->
                                        last_refill']
                   ELSE IF granted' < granted THEN <<>> ELSE admitted
    /\ UNCHANGED <<cacheVars, callVars, clientVars, callers, retry, keygen, batch, twin, inval>>

\* One caller at a time on one token bucket, with the grants recorded: acquire
\* of any cost, blocking or not, without timeout, and reset.
NextRate ==
    \/ Tick
    \/ \E c \in 1..MaxCost, b \in BOOLEAN :
          TBCall(Main, "acquire", c, b, NoTimeout) /\ Snapshot(Main, NoTimeout) /\ Admit
    \/ AcquireStep(Main) /\ Admit
    \/ Reset(Main) /\ Admit
    \/ Return(Main) /\ Admit

SpecRate == InitBucket /\ [][NextRate]_vars

(* ---------------- concurrent callers of one token bucket ---------------- *)

\* faulty variant of Runnable: a task may be switched out between any two statements
RunnableAnywhere(t) == TRUE

\* asyncio runs the tasks on one thread: a task runs until it awaits, and the
\* only await in acquire_async is the sleep (rate_limiter.py:190), so a task
\* runs only while every other task is before its call, asleep, or returned.
Runnable(t) == \A u \in Tasks \ {t} : pc[u] \in Parked

\* Concurrent acquire_async tasks on one limiter (asyncio.gather of
\* AsyncKraClient operations, client.py:582, 786-787), each making one call
\* of any cost with timeout=None, as the client does.
\* The tasks are interchangeable: they are numbered in the order they call.
NextAsync ==
    \/ Tick
    \/ \E t \in ConcTasks, c \in 1..MaxCost :
          /\ Runnable(t)
          /\ \A u \in ConcTasks : u < t => pc[u] # "idle"
          /\ TBCall(t, "acquire_async", c, TRUE, NoTimeout)
          /\ UNCHANGED <<entry, extVars>>
    \/ \E t \in ConcTasks : Runnable(t) /\ AcquireStep(t) /\ UNCHANGED extVars

SpecAsync == InitBucket /\ [][NextAsync]_vars

\* Threads calling the blocking acquire of one shared limiter: the code takes
\* no lock, so the threads interleave between any two statements.
NextThreads ==
    \/ Tick
    \/ \E t \in ConcTasks, c \in 1..MaxCost :
          /\ \A u \in ConcTasks : u < t => pc[u] # "idle"
          /\ TBCall(t, "acquire", c, TRUE, NoTimeout)
          /\ UNCHANGED <<entry, extVars>>
    \/ \E t \in ConcTasks : AcquireStep(t) /\ UNCHANGED extVars

SpecThreads == InitBucket /\ [][NextThreads]_vars

(* ---------------- retry delays ---------------- *)

RECURSIVE Pow(_, _)
Pow(b, n) == IF n = 0 THEN 1 ELSE b * Pow(b, n - 1)

\* config.py:81-90  get_delay(attempt) of configuration cfg when
\* random.random() gives draw / JitterSteps, in 1/DelayScale seconds:
\* delay = min(initial_delay * exponential_base ** attempt, max_delay),
\* jitter = delay * 0.25 * (2 * random.random() - 1), max(0, delay + jitter)
get_delay(cfg, attempt, draw) ==
    LET delay == Min(cfg.initial_delay * Pow(cfg.exponential_base, attempt),
                     cfg.max_delay)
        jitter == delay * (2 * draw - JitterSteps)
    IN  Max(0, delay * DelayScale + jitter)

\* config.py:43-59  RetryConfig(initial_delay=i, max_delay=m,
\* exponential_base=b); __post_init__ rejects the rest
RetryConfig(i, m, b) ==
    /\ i > 0
    /\ m >= i
    /\ b > 1
    /\ retry' = [NoRetry EXCEPT !.initial_delay = i, !.max_delay = m,
                                !.exponential_base = b]
    /\ UNCHANGED <<now, limVars, taskVars, histVars, cacheVars, callVars, clientVars,
                   callers, admitted, keygen, batch, twin, inval>>

\* config.py:85  self.exponential_base ** attempt is a power of floats: a
\* result beyond the largest float raises OverflowError
Overflows(cfg, attempt) == Pow(cfg.exponential_base, attempt) >= 2 ^ max_exp

\* config.py:61-90  one call retry_config.get_delay(attempt): it returns the
\* delay, or the power raises and nothing is returned
GetDelay(attempt, draw) ==
    /\ retry' = IF Overflows(retry, attempt)
                THEN [retry EXCEPT !.attempt = attempt, !.draw = draw,
                                   !.raised = "OverflowError"]
                ELSE [retry EXCEPT !.attempt = attempt, !.draw = draw,
                                   !.delay = get_delay(retry, attempt, draw),
                                   !.raised = "none"]
    /\ UNCHANGED <<now, limVars, taskVars, histVars, cacheVars, callVars, clientVars,
                   callers, admitted, keygen, batch, twin, inval>>

\* Retry configurations are built and asked for delays, for every attempt
\* number and every jitter draw.
NextDelay ==
    \/ \E i \in 0..MaxInitialDelayArg, m \in (1..MaxDelayArg) \cup {max_delay},
          b \in 1..MaxBaseArg : RetryConfig(i, m, b)
    \/ \E attempt \in 0..MaxAttempt, draw \in 0..(JitterSteps - 1) : GetDelay(attempt, draw)

(* ---------------- the token bucket in float arithmetic ---------------- *)

\* the spacing of the floats around the rational a / b: the largest power of
\* two that leaves a / b its Precision significant bits
RECURSIVE Quantum(_, _, _)
Quantum(a, b, q) == IF a >= q * (2 ^ Precision) * b THEN Quantum(a, b, 2 * q) ELSE q

\* a / d rounded to the nearest whole number, halves to the even one
RoundEven(a, d) ==
    LET n == a \div d
        r == a % d
    IN  IF 2 * r > d \/ (2 * r = d /\ n % 2 = 1) THEN n + 1 ELSE n

\* the float that an arithmetic operation with the exact result a / b gives
fl(a, b) == LET q == Quantum(a, b, 1) IN q * RoundEven(a, b * q)

\* rate_limiter.py:77-85  _refill_tokens() at clock reading t of a limiter l
\* with refill_rate rate and max_requests m: elapsed = now - self.last_refill,
\* tokens_to_add = elapsed * self.refill_rate, self.tokens = min(self.tokens +
\* tokens_to_add, self.max_requests), self.last_refill = now
FloatRefill(l, t, rate, m) ==
    LET tokens_to_add == fl((t - l.last_refill) * rate, TicksPerSecond)
    IN  [tokens |-> Min(fl(l.tokens + tokens_to_add, 1), m * FloatUnit),
         last_refill |-> t]

\* rate_limiter.py:58-63  two limiters are built at the same instant from one
\* RateLimitConfig(max_requests=m, window_seconds=w): tokens =
\* float(max_requests), refill_rate = max_requests / window_seconds
TwinInit(m, w) ==
    /\ twin = NoTwin
    /\ twin' = [NoTwin EXCEPT !.max_requests = m,
                              !.refill_rate = fl(m * FloatUnit, w),
                              !.polled = [tokens |-> m * FloatUnit, last_refill |-> now],
                              !.plain = [tokens |-> m * FloatUnit, last_refill |-> now]]
    /\ UNCHANGED <<now, limVars, taskVars, histVars, cacheVars, callVars, clientVars,
                   callers, retry, admitted, keygen, batch, inval>>

\* rate_limiter.py:205-238  get_available_tokens() or get_wait_time() on the
\* first limiter: both refill and report
TwinPoll(h) ==
    /\ twin # NoTwin
    /\ h \in {"get_available_tokens", "get_wait_time"}
    /\ twin' = [twin EXCEPT !.polled = FloatRefill(twin.polled, now, twin.refill_rate,
                                                  twin.max_requests),
                            !.helper = h,
                            !.out = <<"none", "none">>]
    /\ UNCHANGED <<now, limVars, taskVars, histVars, cacheVars, callVars, clientVars,
                   callers, retry, admitted, keygen, batch, inval>>

\* rate_limiter.py:115-130  acquire(tokens=c, block=False) on a limiter l at
\* clock reading t: the limiter it leaves and its outcome
FloatAcquire(l, t, c, rate, m) ==
    LET r == FloatRefill(l, t, rate, m)
    IN  IF r.tokens >= c * FloatUnit
        THEN [lim |-> [r EXCEPT !.tokens = fl(r.tokens - c * FloatUnit, 1)], out |-> "True"]
        ELSE [lim |-> r, out |-> "RateLimitExceededError"]

\* the same acquisition is made on both limiters at the same instant
TwinAcquire(c) ==
    /\ twin # NoTwin
    /\ LET a == FloatAcquire(twin.polled, now, c, twin.refill_rate, twin.max_requests)
           b == FloatAcquire(twin.plain, now, c, twin.refill_rate, twin.max_requests)
       IN  twin' = [twin EXCEPT !.polled = a.lim, !.plain = b.lim, !.helper = "none",
                                !.out = <<a.out, b.out>>]
    /\ UNCHANGED <<now, limVars, taskVars, histVars, cacheVars, callVars, clientVars,
                   callers, retry, admitted, keygen, batch, inval>>

\* Two token buckets of one configuration, built together and given the same
\* acquisitions at the same instants; the first is also asked for its
\* available tokens and its wait time in between.
NextTwin ==
    \/ Tick
    \/ \E m \in 1..max_requests, w \in 1..(window_seconds + 1) : TwinInit(m, w)
    \/ \E h \in {"get_available_tokens", "get_wait_time"} : TwinPoll(h)
    \/ TwinAcquire(1)


(* ---------------- cache keys ---------------- *)

\* faulty variant of SortKeys: the parameters are written in the order given
SortKeysNot(kw) == kw

RECURSIVE SortKeys(_)
\* cache.py:219  json.dumps(kwargs, sort_keys=True): the parameters, a
\* sequence of <<name, value>> in the order the caller wrote them, names
\* distinct and numbered in alphabetical order, are written sorted by name
SortKeys(kw) ==
    IF kw = <<>> THEN <<>>
    ELSE LET i == CHOOSE i \in 1..Len(kw) : \A j \in 1..Len(kw) : kw[i][1] <= kw[j][1]
         IN  <<kw[i]>> \o SortKeys(SubSeq(kw, 1, i - 1) \o SubSeq(kw, i + 1, Len(kw)))

RECURSIVE md5(_, _)
\* cache.py:222-223  hashlib.md5(param_string.encode()).hexdigest(): a digest
\* of the text read from its start, one of finitely many, so that different
\* texts may share one
md5(text, h) ==
    IF text = <<>> THEN h
    ELSE md5(Tail(text), (31 * h + 7 * Head(text)[1] + Head(text)[2]) % HashMod)

\* cache.py:203-225  CacheManager.generate_key(prefix, **kwargs): f"{prefix}:{hash_hex}"
generate_key(prefix, kw) == <<prefix, md5(SortKeys(kw), 0)>>

\* one call of generate_key
GenerateKeyCall(prefix, kw) ==
    /\ keygen' = [prefix |-> prefix, kwargs |-> kw, key |-> generate_key(prefix, kw)]
    /\ UNCHANGED <<now, limVars, taskVars, histVars, cacheVars, callVars, clientVars,
                   callers, retry, admitted, batch, twin, inval>>

\* A key is generated, for every prefix and every choice and order of
\* parameters.  generate_key reads and writes no state of the manager, so a
\* call is the same whatever went before: the first one stands for all.
NextKey ==
    \E prefix \in Prefixes, n \in 0..MaxParams :
        \E kw \in [1..n -> (1..MaxParams) \X (1..MaxParamValue)] :
            /\ keygen.prefix = "none"
            /\ \A i, j \in 1..n : kw[i][1] = kw[j][1] => i = j
            /\ GenerateKeyCall(prefix, kw)

(* ---------------- invalidate_pattern on key strings ---------------- *)

\* cache.py:376  pattern.replace("*", "")
Replace(pattern) ==
    LET kept(c) == c # "*" IN SelectSeq(pattern, kept)

\* cache.py:376  sub in key
Contains(key, sub) ==
    \E i \in 0..(Len(key) - Len(sub)) : SubSeq(key, i + 1, i + Len(sub)) = sub

\* cache.py:369-380  CacheManager.invalidate_pattern(p) on a manager whose
\* in-memory backend holds the value cached[k] under each key k (None: the
\* key is not there): nothing when disabled, else self.delete(key) for every
\* key of the backend with pattern.replace("*", "") in key
InvalidateText(p, cached) ==
    /\ inval = NoInval
    /\ inval' = [pattern |-> p,
                 before |-> cached,
                 after |-> [k \in KeyTexts |->
                              IF enabled /\ cached[k] # None /\ Contains(k, Replace(p))
                              THEN None ELSE cached[k]]]
    /\ UNCHANGED <<now, limVars, taskVars, histVars, cacheVars, callVars, clientVars,
                   callers, retry, admitted, keygen, batch, twin>>

\* One invalidate_pattern call, for every pattern and every content of the
\* backend.
NextPattern ==
    \E p \in PatternTexts, cached \in [KeyTexts -> Values \cup {None}] : InvalidateText(p, cached)

(* ---------------- a backend that fails ---------------- *)

\* CacheConfig.backend (cache.py:196-197) puts any object with get, set,
\* delete and clear behind the manager.  It is taken to store as the in-memory
\* backend does, except that a call of it may raise x: CacheError, or an
\* exception of its own such as the ConnectionError of a network store.

\* cache.py:243-258  backend.get raises x at the start of op: "except
\* CacheError" turns the one into a miss and lets every other out; the client
\* calls CacheManager.get outside its try (client.py:160, 577)
GetRaises(op, k, x) ==
    /\ cpc = "idle"
    /\ enabled
    /\ pc[Main] = "idle"
    /\ ccall' = [NoCCall EXCEPT !.op = op, !.key = k]
    /\ cret' = [NoRet EXCEPT !.time = now, !.path = "backend_error"]
    /\ cpc' = IF x = "CacheError" THEN AfterGet(op, None) ELSE "done"
    /\ outcome' = IF x = "CacheError" THEN GetOutcome(op, None) ELSE x
    /\ failing' = 0
    /\ attempts' = 0
    /\ lim0' = [tokens |-> tokens, last_refill |-> last_refill, granted |-> granted]
    /\ UNCHANGED <<now, limVars, taskVars, histVars, auxVars, cacheVars, centry>>

\* cache.py:280-284  backend.set raises x in CacheManager.set(k, v): "except
\* CacheError" again
SetRaises(k, x) ==
    /\ cpc = "idle"
    /\ enabled
    /\ ccall' = [NoCCall EXCEPT !.op = "set", !.key = k]
    /\ cret' = [NoRet EXCEPT !.time = now, !.path = "backend_error"]
    /\ cpc' = "done"
    /\ outcome' = IF x = "CacheError" THEN None ELSE x
    /\ UNCHANGED <<now, limVars, taskVars, histVars, auxVars, cacheVars, centry, clientVars>>

\* cache.py:351, client.py:190-200  backend.set raises x when the computed
\* value v is stored: get_or_set lets what CacheManager.set lets out through;
\* the client's set is inside its try, whose "except Exception" wraps it in
\* KraConnectError
StoreRaises(v, x) ==
    /\ cpc \in {"factory", "transport"}
    /\ enabled
    /\ cpc = "transport" => TransportOutcome(attempts + 1) = "ok"
    /\ attempts' = IF cpc = "transport" THEN attempts + 1 ELSE attempts
    /\ cret' = [cret EXCEPT !.path = "backend_error"]
    /\ cpc' = "done"
    /\ outcome' = IF x = "CacheError" THEN v
                  ELSE IF cpc = "transport" THEN "KraConnectError" ELSE x
    /\ UNCHANGED <<now, limVars, taskVars, histVars, auxVars, cacheVars, ccall, centry,
                   failing, lim0>>

\* cache.py:299-302, 314-317  backend.delete or backend.clear raises x:
\* "except Exception" logs it and the manager returns
DropRaises(op, k, x) ==
    /\ cpc = "idle"
    /\ enabled
    /\ op \in {"delete", "clear"}
    /\ op = "clear" => k = NoKey
    /\ op = "delete" => k \in Keys
    /\ ccall' = [NoCCall EXCEPT !.op = op, !.key = k]
    /\ cret' = [NoRet EXCEPT !.time = now, !.path = "backend_error"]
    /\ cpc' = "done"
    /\ outcome' = None
    /\ UNCHANGED <<now, limVars, taskVars, histVars, auxVars, cacheVars, centry, clientVars>>

\* cache.py:369-372, 381-382  invalidate_pattern(p) over a backend that is
\* not a MemoryCacheBackend: a warning is logged, nothing is deleted, and the
\* call returns None as it does after deleting
InvalidateUnsupported(p) ==
    /\ cpc = "idle"
    /\ enabled
    /\ ccall' = [NoCCall EXCEPT !.op = "invalidate_pattern", !.key = <<p, "*">>]
    /\ cret' = [NoRet EXCEPT !.time = now, !.path = "unsupported"]
    /\ cpc' = "done"
    /\ outcome' = None
    /\ UNCHANGED <<now, limVars, taskVars, histVars, auxVars, cacheVars, centry, clientVars>>

\* A cache manager and a client over such a backend, the transport answering
\* every request.
NextFaulty ==
    \/ TickClient
    \/ \E op \in ClientOps, pin \in Pins : ClientCall(op, pin, 0)
    \/ \E op \in {"get", "get_or_set"} \cup ClientOps, k \in Keys,
          x \in {"CacheError", "ConnectionError"} :
          /\ op \in ClientOps => k[1] = Prefix(op)
          /\ GetRaises(op, k, x)
    \/ GetExpired
    \/ ClientAcquire("acquire")
    \/ ClientAcquiring
    \/ ClientAcquired
    \/ \E v \in Values : Transport(v)
    \/ \E k \in Keys : CacheGet("get_or_set", k, FALSE, 0)
    \/ \E v \in Values : Factory(v)
    \/ \E k \in Keys, x \in {"CacheError", "ConnectionError"} : SetRaises(k, x)
    \/ \E v \in Values, x \in {"CacheError", "ConnectionError"} : StoreRaises(v, x)
    \/ \E op \in {"delete", "clear"}, k \in Keys \cup {NoKey},
          x \in {"CacheError", "ConnectionError"} : DropRaises(op, k, x)
    \/ \E p \in Patterns : InvalidateUnsupported(p)
    \/ CReturn

(* ---------------- cache and client specifications ---------------- *)

\* cache.py:240-258  CacheManager.get(k) as a function of the cache: the
\* value returned and the backend after it
Lookup(k) ==
    IF enabled /\ TTLContains(store, links, k, now)
    THEN IF IsExpired(store[k], now)
         THEN LET d == TTLDelItem(store, links, k, now)
              IN  [value |-> None, store |-> d.store, links |-> d.links]
         ELSE [value |-> store[k].value, store |-> store,
               links |-> Append(Without(links, k), k)]
    ELSE [value |-> None, store |-> store, links |-> links]

\* the coroutines of AsyncKraClient share one thread: a coroutine runs from
\* one await to the next (client.py:582 acquire_async's sleep, client.py:585
\* the request), so it runs only while every other coroutine is at one;
\* get_or_set callers are threads and stop nobody
ConcRunnable(t, op) ==
    op = "verify_pin" =>
        \A u \in ConcTasks \ {t} :
            \/ callers[u].op # "verify_pin"
            \/ callers[u].pc \in {"idle", "transport", "done"}
            \/ callers[u].pc = "acquiring" /\ pc[u] = "sleep"

\* cache.py:339-347, client.py:571-579  caller t starts op on the key of pin:
\* the cache lookup, a hit returning at once
ConcCall(t, op, pin) ==
    /\ callers[t].pc = "idle"
    /\ ConcRunnable(t, op)
    /\ LET k == GenerateKey("pin", pin)
           g == Lookup(k)
       IN  /\ store' = g.store
           /\ links' = g.links
           /\ callers' = [callers EXCEPT ![t] =
                  [op |-> op, key |-> k, pc |-> AfterGet(op, g.value),
                   hit |-> g.value # None, took |-> 0,
                   out |-> IF g.value # None THEN g.value ELSE "none"]]
    /\ UNCHANGED <<now, limVars, taskVars, histVars, enabled, promise, callVars,
                   clientVars, retry, admitted, keygen, batch, twin, inval>>

\* client.py:582  await self.rate_limiter.acquire_async()
ConcAcquire(t) ==
    /\ callers[t].pc = "acquire"
    /\ ConcRunnable(t, callers[t].op)
    /\ TBCall(t, "acquire_async", 1, TRUE, NoTimeout)
    /\ callers' = [callers EXCEPT ![t].pc = "acquiring"]
    /\ UNCHANGED <<entry, cacheVars, callVars, clientVars, retry, admitted, keygen, batch, twin, inval>>

\* the statements of that acquire_async
ConcAcquiring(t) ==
    /\ callers[t].pc = "acquiring"
    /\ ConcRunnable(t, callers[t].op)
    /\ AcquireStep(t)
    /\ UNCHANGED extVars

\* acquire_async has returned, the request is sent: client.py:585 await
\* self.http_client.post(...)
ConcAcquired(t) ==
    /\ callers[t].pc = "acquiring"
    /\ ConcRunnable(t, callers[t].op)
    /\ Return(t)
    /\ callers' = [callers EXCEPT ![t].pc = "transport", ![t].took = taken[t]]
    /\ UNCHANGED <<cacheVars, callVars, clientVars, retry, admitted, keygen, batch, twin, inval>>

\* cache.py:348-353, client.py:585-606  the computation of caller t (factory_fn,
\* or the request) gives v, which is stored under the key and returned
ConcCompute(t, v) ==
    /\ callers[t].pc \in {"factory", "transport"}
    /\ ConcRunnable(t, callers[t].op)
    /\ IF enabled /\ EffectiveTtl(FALSE, 0) > 0
       THEN LET e == [value |-> v,
                      expires_at |-> now + EffectiveTtl(FALSE, 0) * TicksPerSecond,
                      link_expires |-> 0]
                w == TTLSetItem(store, links, callers[t].key, e, now)
            IN  /\ store' = w.store
                /\ links' = w.links
                /\ promise' = [key |-> callers[t].key, value |-> v,
                               expires_at |-> e.expires_at, evicted |-> w.evicted]
       ELSE UNCHANGED <<store, links, promise>>
    /\ callers' = [callers EXCEPT ![t].pc = "done", ![t].out = v]
    /\ UNCHANGED <<now, limVars, taskVars, histVars, enabled, callVars, clientVars, retry,
                   admitted, keygen, batch, twin, inval>>

\* Concurrent callers of one client on one key, one call each: threads in
\* CacheManager.get_or_set and coroutines in AsyncKraClient.verify_pin.
\* The callers are numbered in the order they call.
NextStampede ==
    \/ Tick
    \/ \E t \in ConcTasks, op \in {"get_or_set", "verify_pin"}, pin \in Pins :
          /\ \A u \in ConcTasks : u < t => callers[u].pc # "idle"
          /\ ConcCall(t, op, pin)
    \/ \E t \in ConcTasks : ConcAcquire(t)
    \/ \E t \in ConcTasks : ConcAcquiring(t)
    \/ \E t \in ConcTasks : ConcAcquired(t)
    \/ \E t \in ConcTasks, v \in Values : ConcCompute(t, v)

(* ---------------- verify_pins_batch ---------------- *)

\* client.py:489-499, 776-784  the element of the result list for pin: what
\* verify_pin returned, or, when it raised,
\* PinVerificationResult(pin_number=pin, is_valid=False, error_message=str(e))
BatchResult(pin, out) ==
    IF out \in Values
    THEN [pin_number |-> pin, result |-> out, error_message |-> None]
    ELSE [pin_number |-> pin, result |-> "is_valid=False", error_message |-> out]

\* client.py:466-487, 770-787  verify_pins_batch(ps) of KraClient (m = "sync")
\* or of AsyncKraClient (m = "async") is called, the client's first call; an
\* empty list returns at once
BatchStart(ps, m) ==
    /\ batch.mode = "none"
    /\ cpc = "idle"
    /\ batch' = [mode |-> m, pins |-> ps, results |-> <<>>, returned |-> ps = <<>>]
    /\ UNCHANGED <<now, limVars, taskVars, histVars, cacheVars, callVars, clientVars,
                   callers, retry, admitted, keygen, twin, inval>>

\* client.py:488-490  the loop of KraClient comes to its next PIN:
\* self.verify_pin(pin), whose validation may raise at once
BatchVerify(f) ==
    /\ batch.mode = "sync"
    /\ ~batch.returned
    /\ LET pin == batch.pins[Len(batch.results) + 1]
       IN  IF pin \in Pins THEN ClientCall("verify_pin", pin, f)
           ELSE f = 0 /\ InvalidCall("verify_pin")

\* faulty variant of BatchCollect: what verify_pin raises leaves the batch
BatchCollectRaising ==
    /\ batch.mode = "sync"
    /\ ~batch.returned
    /\ cpc = "done"
    /\ batch' = IF outcome \in Values
                THEN [batch EXCEPT
                        !.results = Append(@, BatchResult(batch.pins[Len(@) + 1], outcome)),
                        !.returned = Len(batch.results) + 1 = Len(batch.pins)]
                ELSE [batch EXCEPT !.returned = TRUE]
    /\ cpc' = "idle"
    /\ ccall' = NoCCall
    /\ cret' = NoRet
    /\ outcome' = "none"
    /\ failing' = 0
    /\ attempts' = 0
    /\ lim0' = NoLim
    /\ UNCHANGED <<now, limVars, taskVars, histVars, cacheVars, centry, callers, retry,
                   admitted, keygen, twin, inval>>

\* client.py:490-502  verify_pin has returned or raised: its result, or the
\* error result, is appended; after the last PIN the list is returned
BatchCollect ==
    /\ batch.mode = "sync"
    /\ ~batch.returned
    /\ cpc = "done"
    /\ batch' = [batch EXCEPT
                    !.results = Append(@, BatchResult(batch.pins[Len(@) + 1], outcome)),
                    !.returned = Len(batch.results) + 1 = Len(batch.pins)]
    /\ cpc' = "idle"
    /\ ccall' = NoCCall
    /\ cret' = NoRet
    /\ outcome' = "none"
    /\ failing' = 0
    /\ attempts' = 0
    /\ lim0' = NoLim
    /\ UNCHANGED <<now, limVars, taskVars, histVars, cacheVars, centry, callers, retry,
                   admitted, keygen, twin, inval>>

\* client.py:570, 585-612  coroutine t of the gather ends with the error x:
\* InvalidPinFormatError from its validation, or what its request raised
ConcFail(t, x) ==
    /\ batch.mode = "async"
    /\ ConcRunnable(t, "verify_pin")
    /\ IF batch.pins[t] \in Pins
       THEN callers[t].pc = "transport" /\ x # "InvalidPinFormatError"
       ELSE callers[t].pc = "idle" /\ x = "InvalidPinFormatError"
    /\ callers' = [callers EXCEPT ![t].op = "verify_pin", ![t].pc = "done", ![t].out = x]
    /\ UNCHANGED <<now, limVars, taskVars, histVars, cacheVars, callVars, clientVars,
                   retry, admitted, keygen, batch, twin, inval>>

\* client.py:786-787  asyncio.gather returns, every coroutine having ended:
\* the results in the order of the coroutines, which is that of the PINs
BatchGather ==
    /\ batch.mode = "async"
    /\ ~batch.returned
    /\ \A t \in 1..Len(batch.pins) : callers[t].pc = "done"
    /\ batch' = [batch EXCEPT
                    !.results = [t \in 1..Len(batch.pins) |->
                                    BatchResult(batch.pins[t], callers[t].out)],
                    !.returned = TRUE]
    /\ UNCHANGED <<now, limVars, taskVars, histVars, cacheVars, callVars, clientVars,
                   callers, retry, admitted, keygen, twin, inval>>

\* Batches of valid and malformed PINs, sequential and concurrent, against a
\* transport that answers, times out or rejects.
NextBatch ==
    \/ TickClient
    \/ \E n \in 0..NumTasks, m \in {"sync", "async"} :
          \E ps \in [1..n -> Pins \cup {"INVALID"}] : BatchStart(ps, m)
    \/ \E f \in 0..1 : BatchVerify(f)
    \/ GetExpired
    \/ ClientAcquire("acquire")
    \/ ClientAcquiring
    \/ ClientAcquired
    \/ \E v \in Values : Transport(v)
    \/ Rejected(401)
    \/ BatchCollect
    \/ \E t \in ConcTasks :
          /\ batch.mode = "async"
          /\ t <= Len(batch.pins)
          /\ \A u \in ConcTasks : u < t => callers[u].pc # "idle"
          /\ \/ batch.pins[t] \in Pins /\ ConcCall(t, "verify_pin", batch.pins[t])
             \/ ConcAcquire(t)
             \/ ConcAcquiring(t)
             \/ ConcAcquired(t)
             \/ \E v \in Values : ConcCompute(t, v)
             \/ \E x \in {"InvalidPinFormatError", "ApiTimeoutError"} : ConcFail(t, x)
    \/ BatchGather

\* caching enabled or disabled, over a token bucket as the clients build it
InitCache == \E en \in BOOLEAN : InitState("tb", en)

SpecCache == InitCache /\ [][NextCache]_vars

SpecClient == InitCache /\ [][NextClient]_vars

SpecStampede == InitCache /\ [][NextStampede]_vars

SpecFaulty == InitState("tb", TRUE) /\ [][NextFaulty]_vars

SpecDelay == InitState("tb", TRUE) /\ [][NextDelay]_vars

SpecKey == InitState("tb", TRUE) /\ [][NextKey]_vars

SpecWrite == InitCache /\ [][NextWrite]_vars

SpecBatch == InitCache /\ [][NextBatch]_vars

SpecPattern == InitCache /\ [][NextPattern]_vars

SpecAbsent == InitCache /\ [][NextAbsent]_vars

SpecTwin == InitState("tb", TRUE) /\ [][NextTwin]_vars

(* ---------------- scenario A: more callers than the bucket holds ---------------- *)

\* the callers of scenario A arrive no later than this
ArrivalEnd == MaxTime - CeilDiv(Scale, max_requests) - 1

\* time.sleep of the synchronous acquire holds the thread: nobody else runs
\* until it is over; asyncio.sleep of acquire_async yields to the other tasks.
LiveRunnable(t) ==
    \A u \in Tasks \ {t} :
        /\ pc[u] \in Parked
        /\ pc[u] = "sleep" => call[u].op = "acquire_async"

\* Time advances while the callers are still arriving or somebody sleeps; a
\* task whose sleep is over and that can run does so before more time passes.
TickLive ==
    /\ \A t \in Tasks : pc[t] \in Parked
    /\ \A t \in Tasks : (pc[t] = "sleep" /\ LiveRunnable(t)) => now < wake[t]
    /\ (\E t \in Tasks : pc[t] = "sleep") \/ now < ArrivalEnd
    /\ Tick

\* caller t of scenario A makes its one call: cost 1, blocking, no timeout
LiveCall(t) ==
    /\ LiveRunnable(t)
    /\ \A u \in LiveTasks : u < t => pc[u] # "idle"
    /\ \E op \in {"acquire", "acquire_async"} : TBCall(t, op, 1, TRUE, NoTimeout)
    /\ UNCHANGED <<entry, extVars>>

\* caller t of scenario A runs when it holds the thread
LiveStep(t) == LiveRunnable(t) /\ AcquireStep(t) /\ UNCHANGED extVars

NextLive ==
    \/ TickLive
    \/ \E t \in LiveTasks : LiveCall(t)
    \/ \E t \in LiveTasks : LiveStep(t)

\* The event loop runs every ready task (FIFO), and the clock advances.
SpecLive ==
    /\ InitBucket
    /\ [][NextLive]_vars
    /\ WF_vars(TickLive)
    /\ \A t \in LiveTasks : WF_vars(LiveCall(t)) /\ WF_vars(LiveStep(t))

(* ====================== the claims ====================== *)

\* number of sliding-window grants whose grant time lies in [t - window, t]
GrantsInWindow(t) ==
    Cardinality({i \in 1..Len(grants) : grants[i] >= t - WindowTicks /\ grants[i] <= t})

\* C1: with one caller at a time and a non-decreasing clock, after any
\* sequence of acquire, acquire_async, get_available_tokens, get_wait_time
\* and reset calls the token count stays within 0 <= tokens <= capacity.
C1_TokensWithinCapacity ==
    kind = "tb" => (0 <= tokens /\ tokens <= Capacity)

\* C1 witness: after a grant emptied part of the bucket, a refill over elapsed
\* time that would overshoot has been capped at the capacity.
C1_Witness ==
    /\ kind = "tb"
    /\ granted > 0
    /\ pc[Main] = "refill_stamp"
    /\ loc[Main].add > 0
    /\ tokens = Capacity

\* C2: the number of sliding-window grants whose grant time lies in any
\* trailing interval of length window_seconds never exceeds max_requests.
C2_SlidingWindowHardCap ==
    kind = "sw" => \A t \in 0..MaxTime : GrantsInWindow(t) <= max_requests

\* C2 witness: the window has slid: more grants than max_requests were made
\* in all, the last one exactly when an old request has just left the window.
C2_Witness ==
    /\ kind = "sw"
    /\ Len(grants) > max_requests
    /\ GrantsInWindow(now) = max_requests
    /\ grants[Len(grants)] = now
    /\ grants[1] + WindowTicks + 1 = now

\* C8: a blocking acquire of either limiter that times out returns False
\* having consumed nothing: the token count is what refill alone gives from
\* the state at the call, and the window holds no stamp the call appended.
C8_TimedOutConsumesNothing ==
    \A t \in Tasks :
        (pc[t] = "done" /\ result[t] = "False") =>
            /\ taken[t] = 0
            /\ kind = "tb" =>
                  tokens = Min(entry[t].tokens
                               + (last_refill - entry[t].last_refill) * max_requests,
                               Capacity)
            /\ kind = "sw" =>
                  \E tc \in call[t].start..now : requests = Trim(entry[t].requests, tc)

\* C8 witness (token bucket): a wait that slept at least once, saw tokens
\* refilled meanwhile, and still timed out.
C8_Witness ==
    /\ kind = "tb"
    /\ pc[Main] = "done"
    /\ result[Main] = "False"
    /\ call[Main].timeout > 0
    /\ tokens > entry[Main].tokens

\* C8 second case (sliding window): a timed-out wait on a full window
C8_WitnessWindow ==
    /\ kind = "sw"
    /\ pc[Main] = "done"
    /\ result[Main] = "False"
    /\ call[Main].timeout > 0
    /\ Len(requests) = max_requests

\* C6: with concurrent acquire_async tasks that switch only at the await of
\* the sleep, tokens never becomes negative, and the total cost granted up to
\* any instant is at most the initial capacity plus what the refill rate
\* yields up to that instant.
C6_CooperativeAccounting ==
    /\ tokens >= 0
    /\ granted <= Capacity + max_requests * now

\* C6 witness: every task has been granted, together more than the bucket
\* held at the start, so one of them was granted refilled tokens after a wait.
C6_Witness ==
    /\ \A t \in ConcTasks : pc[t] = "done" /\ result[t] = "True"
    /\ granted > Capacity

\* C7: threads calling the blocking acquire of one shared limiter are
\* serialized, so that tokens is never negative, never above capacity, and no
\* more is granted than was available.
C7_ThreadsSerialized ==
    /\ tokens >= 0
    /\ tokens <= Capacity
    /\ granted <= Capacity + max_requests * now

\* C7 failing state: two threads have both been granted and the bucket is
\* overdrawn.
C7_Overdrawn ==
    /\ \A t \in ConcTasks : pc[t] = "done" /\ result[t] = "True"
    /\ tokens < 0

\* C9: of max_requests + 1 callers each issuing one blocking acquire of cost 1
\* with no timeout on one token bucket, every caller is eventually granted.
C9_EveryCallerGranted ==
    <>(\A t \in LiveTasks : pc[t] = "done" /\ result[t] = "True")

\* C9 witness: all callers, one more than the capacity, have been granted,
\* the last one after time had to pass.
C9_Witness ==
    /\ \A t \in LiveTasks : pc[t] = "done" /\ result[t] = "True"
    /\ granted = (max_requests + 1) * Scale
    /\ now > 0

\* C3: CacheManager.get never returns the value of an entry at or past its
\* expires_at (the time of its set plus its ttl); from that instant on it
\* returns None.
C3_NeverReturnsExpired ==
    /\ cret.value # None => (cret.path = "hit" /\ cret.time < cret.expires_at)
    /\ (cret.path = "hit" /\ promise.key = ccall.key) =>
           (cret.expires_at = promise.expires_at /\ cret.value = promise.value)

\* C3 witness: a get at or past the expiry of the entry the backend still
\* held has returned None.
C3_Witness ==
    /\ cpc = "done"
    /\ ccall.op = "get"
    /\ cret.path = "expired"
    /\ cret.value = None
    /\ promise.key = ccall.key
    /\ cret.time >= promise.expires_at

\* C5: a cacheable read that finds an unexpired cached result returns it with
\* the token bucket as the operation found it and without a transport attempt.
C5_HitBypassesLimiter ==
    (ccall.op \in ClientOps /\ cret.path = "hit") =>
        /\ cpc = "done"
        /\ outcome = cret.value
        /\ tokens = lim0.tokens
        /\ last_refill = lim0.last_refill
        /\ granted = lim0.granted
        /\ pc[Main] = "idle"
        /\ attempts = 0

\* C5 witness: a read has returned a cached result while the bucket was short
\* of full from the miss that had stored it.
C5_Witness ==
    /\ cpc = "done"
    /\ ccall.op \in ClientOps
    /\ cret.path = "hit"
    /\ outcome \in Values
    /\ tokens < Capacity

\* C4: with max_attempts = 3, an operation whose transport times out on the
\* first two attempts and would answer the third makes three attempts, returns
\* the result, and waits twice between attempts.
C4_RetryScenarioC ==
    (cpc = "done" /\ ccall.op \in ClientOps /\ cret.path # "hit"
        /\ failing = max_attempts - 1) =>
        /\ attempts = max_attempts
        /\ outcome \in Values
        /\ RetryDelays = max_attempts - 1

\* C4 failing state: the operation has raised ApiTimeoutError after its one
\* transport attempt, though the third would have been answered.
C4_SingleAttempt ==
    /\ cpc = "done"
    /\ ccall.op \in ClientOps
    /\ failing = max_attempts - 1
    /\ attempts = 1
    /\ outcome = "ApiTimeoutError"

\* C10: with caching enabled, a get of the key of the last set, not deleted
\* or cleared since, made before that set's time plus its ttl, returns the
\* value set.
C10_AvailableWithinTtl ==
    (enabled /\ cpc = "done" /\ ccall.op = "get" /\ promise.key = ccall.key
        /\ cret.time < promise.expires_at) =>
        cret.value = promise.value

\* C10 failing state: a value set with a ttl longer than config.ttl is gone
\* config.ttl after its set, before its own ttl has elapsed.
C10_GoneBeforeTtl ==
    /\ enabled
    /\ cpc = "done"
    /\ ccall.op = "get"
    /\ promise.key = ccall.key
    /\ promise.expires_at > now
    /\ cret.time >= promise.expires_at - (cache_ttl + 1) * TicksPerSecond
                        + cache_ttl * TicksPerSecond
    /\ cret.value = None

\* C11: get_or_set invokes compute only when no unexpired entry exists for the
\* key (none set, or the last one deleted, cleared or past its set time plus
\* ttl); a hit returns the cached value; with caching enabled and a positive
\* ttl, a miss stores what compute returned and returns it.
C11_ComputeIfAbsent ==
    ccall.op = "get_or_set" =>
        /\ cpc = "factory" =>
               ~(enabled /\ promise.key = ccall.key /\ cret.time < promise.expires_at)
        /\ (cpc = "done" /\ cret.path = "hit") => outcome = cret.value
        /\ (cpc = "done" /\ cret.path # "hit") => outcome \in Values
        /\ (cpc = "done" /\ cret.path # "hit" /\ enabled
                /\ EffectiveTtl(ccall.given, ccall.ttl) > 0) =>
               (promise.key = ccall.key /\ promise.value = outcome)

\* C11 failing state: a second get_or_set within the ttl of the first is about
\* to invoke compute again.
C11_ComputedAgainWithinTtl ==
    /\ ccall.op = "get_or_set"
    /\ cpc = "factory"
    /\ enabled
    /\ promise.key = ccall.key
    /\ cret.time < promise.expires_at

\* C12: concurrent misses on one key are not serialized: a computation
\* (factory_fn of get_or_set, the request of AsyncKraClient.verify_pin) is in
\* flight only after its caller's own lookup missed, whatever the other
\* callers are doing, and every verify_pin caller whose lookup missed has
\* consumed one rate-limit token of its own before its request is sent.
C12_EachMissComputes ==
    /\ \A t \in ConcTasks :
          /\ callers[t].pc \in {"factory", "transport"} => ~callers[t].hit
          /\ callers[t].hit => (callers[t].pc = "done" /\ callers[t].took = 0)
          /\ callers[t].op = "get_or_set" => callers[t].took = 0
          /\ (/\ callers[t].op = "verify_pin"
              /\ ~callers[t].hit
              /\ callers[t].pc \in {"transport", "done"}) => callers[t].took = Scale
    /\ granted = Scale * Cardinality({t \in ConcTasks :
                                         callers[t].took = Scale \/ taken[t] = Scale})

\* C12 witness: two verify_pin requests for the same PIN are in flight at
\* once on a cold cache, each having consumed a token.
C12_Witness ==
    /\ \A t \in ConcTasks :
          /\ callers[t].op = "verify_pin"
          /\ callers[t].pc = "transport"
          /\ callers[t].took = Scale
    /\ \A t, u \in ConcTasks : callers[t].key = callers[u].key
    /\ enabled
    /\ links = <<>>
    /\ granted = NumTasks * Scale

\* C12, the other callers: two get_or_set computations for the same key are
\* in flight at once.
C12_WitnessGetOrSet ==
    \A t \in ConcTasks :
        /\ callers[t].op = "get_or_set"
        /\ callers[t].pc = "factory"
        /\ callers[t].key = callers[1].key

\* C13: a failure raised by the cache backend, of whatever type, during get,
\* set, delete or clear never leaves the cache manager: the operation in which
\* it happened ends with a value or None, not with an exception.
C13_CacheFailuresContained ==
    cret.path = "backend_error" =>
        outcome \notin {"CacheError", "ConnectionError", "KraConnectError"}

\* C13 failing state: verify_pin has ended with the backend's own exception,
\* raised by the lookup, and no request was made.
C13_BackendErrorEscapes ==
    /\ cpc = "done"
    /\ ccall.op = "verify_pin"
    /\ cret.path = "backend_error"
    /\ outcome = "ConnectionError"
    /\ attempts = 0

\* C14: when every transport attempt of a client operation times out, the
\* operation fails only after max_attempts attempts, with the ApiTimeoutError
\* of the last attempt.
C14_ExhaustsAttempts ==
    (cpc = "done" /\ ccall.op \in ClientOps /\ failing >= max_attempts
        /\ outcome \notin Values) =>
        /\ attempts = max_attempts
        /\ outcome = "ApiTimeoutError"

\* C14 failing state: the operation has raised ApiTimeoutError after one
\* attempt, two short of max_attempts.
C14_SurfacedAfterOneAttempt ==
    /\ cpc = "done"
    /\ ccall.op \in ClientOps
    /\ failing = max_attempts
    /\ attempts = 1
    /\ max_attempts > 1
    /\ outcome = "ApiTimeoutError"

\* C15: a client operation that ends with an authentication error (401) or a
\* client-error response made exactly one transport attempt, one that ends
\* with a format error made none, and neither waited for a retry.
C15_NonRetryableFailsAtOnce ==
    (cpc = "done" /\ ccall.op \in ClientOps) =>
        /\ outcome \in {"ApiAuthenticationError", "ApiError"} =>
              (attempts = 1 /\ RetryDelays = 0)
        /\ outcome \in {"InvalidPinFormatError", "InvalidTccFormatError"} =>
              (attempts = 0 /\ RetryDelays = 0 /\ tokens = lim0.tokens
                  /\ cret = NoRet)

\* C15 witness: the request was answered 401 and the operation has ended with
\* ApiAuthenticationError, a token spent on its one attempt.
C15_Witness ==
    /\ cpc = "done"
    /\ ccall.op = "verify_pin"
    /\ outcome = "ApiAuthenticationError"
    /\ attempts = 1
    /\ granted = lim0.granted + Scale

\* C16: for every attempt number n >= 0 and every jitter draw, the delay
\* get_delay(n) returns is at most max_delay.
C16_DelayWithinMax ==
    (retry.attempt >= 0 /\ retry.raised = "none") =>
        retry.delay <= retry.max_delay * DelayScale

\* C16 failing state: with the default configuration, an attempt whose
\* backoff is capped at max_delay got a positive jitter on top of the cap.
C16_JitterAboveMax ==
    /\ retry.initial_delay = initial_delay
    /\ retry.max_delay = max_delay
    /\ retry.exponential_base = exponential_base
    /\ retry.attempt >= 0
    /\ retry.initial_delay * Pow(retry.exponential_base, retry.attempt) >= retry.max_delay
    /\ retry.raised = "none"
    /\ retry.delay > retry.max_delay * DelayScale

\* total cost the bucket granted at times a..b
AdmittedIn(a, b) ==
    Cardinality({i \in 1..Len(admitted) : a <= admitted[i] /\ admitted[i] <= b})

C18_WindowStateInvariant ==
    /\ [](kind = "sw" =>
            /\ Len(requests) <= max_requests
            /\ \A i \in 1..(Len(requests) - 1) : requests[i] <= requests[i + 1])
    /\ [][(kind = "sw" /\ pc[Main] = "sw_clean" /\ pc'[Main] # "sw_clean") =>
            \A i \in 1..Len(requests') :
                now - WindowTicks <= requests'[i] /\ requests'[i] <= now]_vars

\* C18 witness: a trim has just dropped the oldest timestamp and kept one that
\* is exactly window_seconds old, with the window full.
C18_Witness ==
    /\ kind = "sw"
    /\ pc[Main] \in {"sw_check", "ret_count"}
    /\ Len(requests) = max_requests
    /\ Len(grants) > Len(requests)
    /\ requests[1] = now - WindowTicks
    /\ grants[Len(grants) - Len(requests)] < now - WindowTicks

\* C19: on a limiter built with enabled = false, every acquire and
\* acquire_async call, whatever its cost, block and timeout, returns True in
\* its first step, without waiting or raising, and leaves tokens, last_refill
\* and the timestamp sequence as they were.
C19_DisabledIsNoOp ==
    /\ []((~rl_enabled /\ call[Main].op \in {"acquire", "acquire_async"}) =>
            (pc[Main] = "done" /\ result[Main] = "True" /\ taken[Main] = 0))
    /\ [][(~rl_enabled /\ pc[Main] = "idle"
              /\ call'[Main].op \in {"acquire", "acquire_async"}) =>
            (/\ now' = now
             /\ tokens' = tokens
             /\ last_refill' = last_refill
             /\ requests' = requests
             /\ granted' = granted
             /\ grants' = grants)]_vars

\* C19 witness: a disabled token bucket last refilled some time ago has
\* granted, without blocking, a cost above its capacity, and its last_refill
\* is still the old one.
C19_Witness ==
    /\ ~rl_enabled
    /\ kind = "tb"
    /\ pc[Main] = "done"
    /\ call[Main].op = "acquire"
    /\ call[Main].cost > max_requests
    /\ ~call[Main].block
    /\ result[Main] = "True"
    /\ 0 < last_refill
    /\ last_refill < now

\* C19 witness (sliding window): a disabled window has granted and holds no
\* timestamp.
C19_WitnessWindow ==
    /\ ~rl_enabled
    /\ kind = "sw"
    /\ pc[Main] = "done"
    /\ call[Main].op = "acquire_async"
    /\ result[Main] = "True"
    /\ requests = <<>>
    /\ now > 0

C20_WitnessWindow ==
    /\ kind = "sw"
    /\ rl_enabled
    /\ pc[Main] = "done"
    /\ ~call[Main].block
    /\ result[Main] = "RateLimitExceededError"
    /\ retval[Main] = window_seconds
    /\ Len(requests) = max_requests

\* C21: a client operation ends with RateLimitExceededError only when its
\* rate-limiter acquisition failed, so without a token granted to it and
\* without a transport attempt; no response of the transport produces it.
C21_OnlyFromAcquisition ==
    (cpc = "done" /\ ccall.op \in ClientOps /\ outcome = "RateLimitExceededError") =>
        /\ attempts = 0
        /\ granted = lim0.granted

\* C21 failing state: the limiter granted the operation its token, the request
\* was sent and answered 429, and the operation has ended with
\* RateLimitExceededError.
C21_RaisedByTransport ==
    /\ cpc = "done"
    /\ ccall.op = "verify_pin"
    /\ outcome = HandleResponse(429)
    /\ outcome = "RateLimitExceededError"
    /\ attempts = 1
    /\ granted = lim0.granted + Scale
    /\ pc[Main] = "idle"

\* C22: with cache.enabled = false, get returns None, get_or_set goes on to
\* compute on every call and returns what compute gave, and no operation of
\* the manager (get, set, delete, clear, get_or_set, invalidate_pattern) reads
\* an entry from the backend or stores, moves or removes one in it.
C22_DisabledCacheUntouched ==
    ~enabled =>
        /\ store = [k \in Keys |-> NoItem]
        /\ links = <<>>
        /\ promise = NoPromise
        /\ centry = NoItem
        /\ cret.value = None
        /\ cret.path \in {"none", "disabled"}
        /\ cpc \in {"idle", "factory", "done"}
        /\ (cpc = "done" /\ ccall.op = "get") => outcome = None
        /\ ccall.op = "get_or_set" =>
              /\ cpc \in {"factory", "done"}
              /\ cret.path = "disabled"
              /\ cpc = "done" => outcome \in Values

\* C22 witness: on a disabled cache a get_or_set with a ttl of its own has
\* returned the computed value, some time after construction, and the backend
\* holds nothing.
C22_Witness ==
    /\ ~enabled
    /\ cpc = "done"
    /\ ccall.op = "get_or_set"
    /\ ccall.given
    /\ ccall.ttl > 0
    /\ cret.path = "disabled"
    /\ outcome \in Values
    /\ now > 0
    /\ links = <<>>

\* C22, the other operations: a set with a positive ttl, and an
\* invalidate_pattern, have returned on a disabled cache.
C22_WitnessSet ==
    /\ ~enabled
    /\ cpc = "done"
    /\ ccall.op = "set"
    /\ EffectiveTtl(ccall.given, ccall.ttl) > 0
    /\ links = <<>>

C22_WitnessInvalidate ==
    /\ ~enabled
    /\ cpc = "done"
    /\ ccall.op = "invalidate_pattern"
    /\ links = <<>>

\* C23: CacheManager.set called with an explicit ttl <= 0, ttl = 0 included,
\* stores nothing and leaves the backend as it was, so that a following get
\* of the key returns what it returned before.
C23_NonPositiveTtlStoresNothing ==
    [][(cpc = "idle" /\ ccall'.op = "set" /\ ccall'.given /\ ccall'.ttl <= 0) =>
          (store' = store /\ links' = links /\ promise' = promise)]_vars

\* C23 failing state: set(key, value, ttl=0) on an enabled cache has stored
\* the value, to expire config.ttl from now.
C23_ZeroTtlStored ==
    /\ enabled
    /\ cpc = "done"
    /\ ccall.op = "set"
    /\ ccall.given
    /\ ccall.ttl = 0
    /\ TTLContains(store, links, ccall.key, now)
    /\ store[ccall.key].value \in Values
    /\ store[ccall.key].expires_at = now + cache_ttl * TicksPerSecond
    /\ promise.key = ccall.key
    /\ promise.value = store[ccall.key].value

\* C23, the other case: a set with a negative ttl has returned with the
\* backend holding an earlier entry of the key untouched.
C23_NegativeTtlSkipped ==
    /\ enabled
    /\ cpc = "done"
    /\ ccall.op = "set"
    /\ ccall.given
    /\ ccall.ttl < 0
    /\ TTLContains(store, links, ccall.key, now)
    /\ store[ccall.key].expires_at < now + cache_ttl * TicksPerSecond

\* C24: generate_key returns the same key for the same prefix and parameters
\* in whatever order the parameters are written, the key has the form
\* prefix:digest, and the keys of the same parameters under different prefixes
\* differ.
C24_KeyDeterministic ==
    keygen.prefix # "none" =>
        LET n == Len(keygen.kwargs)
            orders == {q \in [1..n -> {keygen.kwargs[i] : i \in 1..n}] :
                          \A i \in 1..n : \E j \in 1..n : q[j] = keygen.kwargs[i]}
        IN  /\ \A q \in orders : generate_key(keygen.prefix, q) = keygen.key
            /\ keygen.key[1] = keygen.prefix
            /\ keygen.key[2] \in 0..(HashMod - 1)
            /\ \A p \in Prefixes \ {keygen.prefix} :
                  generate_key(p, keygen.kwargs) # keygen.key

\* C24 witness: a key was generated from parameters written in other than
\* alphabetical order, as in generate_key("pin", b=2, a=1).
C24_Witness ==
    /\ keygen.prefix = "pin"
    /\ Len(keygen.kwargs) = 2
    /\ keygen.kwargs[1] = <<2, 2>>
    /\ keygen.kwargs[2] = <<1, 1>>
    /\ keygen.key = generate_key("pin", <<<<1, 1>>, <<2, 2>>>>)

\* C25: file_nil_return and validate_eslip, of KraClient and of
\* AsyncKraClient, never look into the cache and never store into it, so the
\* cache store is as they found it; each has been granted exactly one token
\* by the time its request is sent.
C25_WritesSkipCache ==
    /\ [](ccall.op \in WriteOps =>
            /\ cret = NoRet
            /\ centry = NoItem
            /\ cpc \in {"acquire", "acquiring", "transport", "done"}
            /\ (cpc = "transport" \/ attempts > 0) => granted = lim0.granted + Scale
            /\ attempts <= 1)
    /\ [][(now' = now /\ (ccall.op \in WriteOps \/ ccall'.op \in WriteOps)) =>
            (store' = store /\ links' = links /\ promise' = promise)]_vars

\* C25 witness: file_nil_return has returned the server's answer, different
\* from the entry the cache holds, having taken one token.
C25_Witness ==
    /\ cpc = "done"
    /\ ccall.op = "file_nil_return"
    /\ outcome \in Values
    /\ attempts = 1
    /\ granted = lim0.granted + Scale
    /\ enabled
    /\ links # <<>>
    /\ promise.value # outcome

\* C25, the other operation: validate_eslip waits in acquire_async for its
\* token, the bucket having been emptied.
C25_WitnessEslip ==
    /\ ccall.op = "validate_eslip"
    /\ cpc = "acquiring"
    /\ call[Main].op = "acquire_async"
    /\ pc[Main] = "sleep"

\* C26: a client operation whose input validation fails raises in its first
\* step: no cache lookup, no limiter acquisition and no transport call is
\* made, and the cache store, the limiter state and the count of transport
\* calls are what they were.
C26_ValidationFailsFast ==
    /\ [](outcome \in {"InvalidPinFormatError", "InvalidTccFormatError", "ValidationError"} =>
            /\ cpc = "done"
            /\ attempts = 0
            /\ cret = NoRet
            /\ pc[Main] = "idle"
            /\ tokens = lim0.tokens
            /\ last_refill = lim0.last_refill
            /\ granted = lim0.granted)
    /\ [][(outcome' \in {"InvalidPinFormatError", "InvalidTccFormatError", "ValidationError"}
              /\ outcome' # outcome) =>
            (/\ cpc = "idle"
             /\ store' = store
             /\ links' = links
             /\ promise' = promise
             /\ tokens' = tokens
             /\ last_refill' = last_refill
             /\ requests' = requests
             /\ attempts' = 0
             /\ pc' = pc
             /\ call' = call)]_vars

\* C26 witness: file_nil_return has raised ValidationError on a client whose
\* cache holds an entry and whose bucket is short of full, both untouched.
C26_Witness ==
    /\ cpc = "done"
    /\ ccall.op = "file_nil_return"
    /\ outcome = "ValidationError"
    /\ enabled
    /\ links # <<>>
    /\ tokens < Capacity
    /\ tokens = lim0.tokens
    /\ attempts = 0

\* C26, a cacheable read: verify_pin has raised InvalidPinFormatError while
\* the cache held the result of an earlier verify_pin.
C26_WitnessRead ==
    /\ cpc = "done"
    /\ ccall.op = "verify_pin"
    /\ outcome = "InvalidPinFormatError"
    /\ TTLContains(store, links, GenerateKey("pin", "P051234567A"), now)
    /\ cret = NoRet

\* C27: from the same limiter state, arguments and clock, a blocking acquire
\* and an acquire_async take the same decision in every iteration: each step
\* of a call of the one is the step the loop of the other prescribes (grant,
\* return False, or sleep of the same length), and tokens and last_refill, or
\* the timestamp sequence, are left the same.
C27_SyncAsyncSameDecision ==
    [][(/\ call[Main].op \in {"acquire", "acquire_async"}
        /\ call[Main].block
        /\ pc[Main] \in {"check", "take", "fail", "sw_check", "sw_append", "sw_fail"}
        /\ pc'[Main] # pc[Main]) =>
          LET c == call[Main]
              other == IF kind = "tb"
                       THEN IF c.op = "acquire" THEN FailOutcomeAsync(c, tokens, now)
                            ELSE FailOutcome(c, tokens, now)
                       ELSE IF c.op = "acquire" THEN SWFailOutcomeAsync(c, now)
                            ELSE SWFailOutcome(c, now)
              wait == IF kind = "tb" THEN WaitTime(tokens, c.cost)
                      ELSE SWWaitTime(requests, now)
          IN  CASE pc[Main] \in {"check", "sw_check"} ->
                       /\ pc'[Main] = IF kind = "tb"
                                      THEN IF Enough(tokens, c.cost) THEN "take" ELSE "fail"
                                      ELSE IF HasRoom(requests) THEN "sw_append"
                                           ELSE "sw_fail"
                       /\ UNCHANGED <<tokens, last_refill, requests>>
                [] pc[Main] \in {"take", "sw_append"} ->
                       /\ pc'[Main] = "done"
                       /\ result'[Main] = "True"
                       /\ tokens' = IF kind = "tb" THEN Subtract(tokens, c.cost) ELSE tokens
                       /\ requests' = IF kind = "sw" THEN Append(requests, now) ELSE requests
                       /\ last_refill' = last_refill
                [] OTHER ->
                       /\ other = "sleep" => (pc'[Main] = "sleep" /\ wake'[Main] = now + wait)
                       /\ other # "sleep" => (pc'[Main] = "done" /\ result'[Main] = other)
                       /\ UNCHANGED <<tokens, last_refill, requests>>]_vars

\* C27 witness: an acquire_async with a timeout has slept, seen tokens
\* refilled meanwhile, and returned False at its timeout.
C27_Witness ==
    /\ kind = "tb"
    /\ pc[Main] = "done"
    /\ call[Main].op = "acquire_async"
    /\ call[Main].timeout > 0
    /\ result[Main] = "False"
    /\ tokens > entry[Main].tokens
    /\ now >= call[Main].start + call[Main].timeout

\* C27, the blocking acquire in the same position on a sliding window
C27_WitnessWindow ==
    /\ kind = "sw"
    /\ pc[Main] = "done"
    /\ call[Main].op = "acquire"
    /\ call[Main].block
    /\ call[Main].timeout > 0
    /\ result[Main] = "False"
    /\ Len(requests) = max_requests
    /\ now >= call[Main].start + call[Main].timeout

\* C28: verify_pins_batch, sequential or concurrent, returns one result for
\* each input PIN, in input order: what verify_pin returned for it, or, when
\* verify_pin raised (a malformed PIN raising in its validation), a result
\* with is_valid = false carrying the error; and the step in which one PIN
\* fails leaves the cache, the limiter and the other PINs' calls as they were.
C28_BatchIndependence ==
    /\ [](LET n == Len(batch.pins)
              r == batch.results
          IN  /\ Len(r) <= n
              /\ batch.returned => Len(r) = n
              /\ (batch.mode = "sync" /\ Len(r) = n) => batch.returned
              /\ \A i \in 1..Len(r) :
                    /\ r[i].pin_number = batch.pins[i]
                    /\ r[i].error_message = None => r[i].result \in Values
                    /\ r[i].error_message # None => r[i].result = "is_valid=False"
                    /\ (batch.pins[i] \notin Pins) <=>
                          (r[i].error_message = "InvalidPinFormatError")
                    /\ batch.mode = "async" =>
                          r[i] = BatchResult(batch.pins[i], callers[i].out))
    /\ [][(batch.mode = "sync" /\ Len(batch'.results) > Len(batch.results)) =>
            (/\ batch'.results[Len(batch'.results)]
                   = BatchResult(batch.pins[Len(batch.results) + 1], outcome)
             /\ SubSeq(batch'.results, 1, Len(batch.results)) = batch.results
             /\ UNCHANGED <<store, links, tokens, last_refill>>
             /\ cpc' = "idle")]_vars
    /\ [][\A t \in ConcTasks :
            (callers'[t].out \notin Values \cup {"none"} /\ callers[t].out = "none") =>
                (/\ \A u \in ConcTasks \ {t} : callers'[u] = callers[u]
                 /\ UNCHANGED <<store, links, tokens, last_refill, pc, batch>>)]_vars

\* C28 witness: a sequential batch that names one PIN first and last has
\* returned: the first request timed out, the last was answered.
C28_Witness ==
    /\ batch.mode = "sync"
    /\ batch.returned
    /\ Len(batch.results) = NumTasks
    /\ batch.results[1].error_message = "ApiTimeoutError"
    /\ batch.results[NumTasks].error_message = None
    /\ batch.pins[1] = batch.pins[NumTasks]

\* C28 witness (concurrent): gather has returned with the error result of a
\* malformed PIN first and the result of a valid PIN after it.
C28_WitnessAsync ==
    /\ batch.mode = "async"
    /\ batch.returned
    /\ Len(batch.results) = NumTasks
    /\ batch.results[1].error_message = "InvalidPinFormatError"
    /\ batch.results[NumTasks].error_message = None
    /\ batch.results[NumTasks].result \in Values

\* C29: invalidate_pattern on a manager whose backend is not the in-memory
\* one ends with an unsupported-operation outcome, not with the None it
\* returns after invalidating.
C29_UnsupportedIsReported ==
    (cpc = "done" /\ ccall.op = "invalidate_pattern" /\ cret.path = "unsupported") =>
        outcome # None

\* C29 failing state: invalidate_pattern("pin:*") has returned None over such
\* a backend, which still holds the verify_pin result stored under a pin: key.
C29_SilentlyNothing ==
    /\ cpc = "done"
    /\ ccall.op = "invalidate_pattern"
    /\ ccall.key = <<"pin", "*">>
    /\ cret.path = "unsupported"
    /\ outcome = None
    /\ TTLContains(store, links, GenerateKey("pin", "P051234567A"), now)

\* C30: the in-memory backend never holds more than cache.max_size entries,
\* and a store into a full cache succeeds by evicting an entry: the value
\* stored is in the cache after the store, and the evicted key is not.
C30_SizeBound ==
    /\ [](/\ Len(links) <= max_size
          /\ Cardinality({k \in Keys : store[k] # NoItem}) <= max_size
          /\ \A k \in Keys : store[k] # NoItem <=> InLinks(links, k))
    /\ [][(promise' # promise /\ promise'.key \in Keys) =>
            (/\ TTLContains(store', links', promise'.key, now)
             /\ store'[promise'.key].value = promise'.value
             /\ promise'.evicted # NoKey =>
                   (/\ TTLContains(store, links, promise'.evicted, now)
                    /\ Len(links) = max_size
                    /\ ~InLinks(links', promise'.evicted)
                    /\ promise'.evicted # promise'.key)
             /\ promise'.evicted = NoKey =>
                   (InLinks(links, promise'.key) \/ Len(links) < max_size
                       \/ \E k \in Keys : InLinks(links, k) /\ now >= store[k].link_expires))]_vars

\* C30 witness: a set into the full cache has stored its value and evicted
\* the entry that was there, not yet expired when it went.
C30_Witness ==
    /\ enabled
    /\ cpc = "done"
    /\ ccall.op = "set"
    /\ promise.key = ccall.key
    /\ promise.evicted \in Keys
    /\ promise.evicted # ccall.key
    /\ links = <<ccall.key>>
    /\ Len(links) = max_size
    /\ store[promise.evicted] = NoItem
    /\ store[ccall.key].value = promise.value
    /\ store[ccall.key].link_expires = now + cache_ttl * TicksPerSecond

\* C31: within one cacheable read the steps come in the order cache get,
\* acquire, transport, cache set: the limiter is asked only after the lookup
\* missed, a request is sent only after the operation's own acquire granted
\* its one token, a value enters the store only in the step in which the
\* request was answered, and a request that failed leaves the store as it was.
C31_PipelineOrder ==
    /\ [](ccall.op \in ClientOps =>
            /\ cpc \in {"acquire", "acquiring", "transport"} =>
                  (cret.path \in {"miss", "expired", "disabled"} /\ attempts = 0)
            /\ cpc \in {"acquire", "acquiring"} => granted - taken[Main] = lim0.granted
            /\ cpc = "transport" =>
                  (granted = lim0.granted + Scale /\ pc[Main] = "idle")
            /\ attempts > 0 =>
                  (cpc = "done" /\ attempts = 1 /\ granted = lim0.granted + Scale))
    /\ [][ccall.op \in ClientOps =>
            /\ (cpc' = "acquire" /\ cpc # "acquire") => cpc \in {"idle", "get_expired"}
            /\ (cpc' = "acquiring" /\ cpc # "acquiring") => cpc = "acquire"
            /\ (cpc' = "transport" /\ cpc # "transport") =>
                  (cpc = "acquiring" /\ result[Main] = "True" /\ taken[Main] = Scale)
            /\ attempts' > attempts => cpc = "transport"
            /\ (\E k \in Keys : store'[k] # store[k] /\ store'[k] # NoItem) =>
                  /\ cpc = "transport"
                  /\ attempts' = attempts + 1
                  /\ outcome' \in Values
                  /\ store'[ccall.key].value = outcome'
                  /\ cpc' = "done"
            /\ (cpc = "transport" /\ cpc' = "done" /\ outcome' \notin Values) =>
                  UNCHANGED <<store, links, promise>>]_vars

\* C31 witness: a read that missed has taken its token, been answered and
\* stored the result it returns.
C31_Witness ==
    /\ cpc = "done"
    /\ ccall.op \in ClientOps
    /\ cret.path = "miss"
    /\ outcome \in Values
    /\ attempts = 1
    /\ granted = lim0.granted + Scale
    /\ enabled
    /\ store[ccall.key].value = outcome
    /\ promise.key = ccall.key

\* C31, the failed request: the read has raised after its one request timed
\* out, its token is spent and the cache is as empty as the read found it.
C31_WitnessFailed ==
    /\ cpc = "done"
    /\ ccall.op \in ClientOps
    /\ cret.path = "miss"
    /\ outcome = "ApiTimeoutError"
    /\ attempts = 1
    /\ granted = lim0.granted + Scale
    /\ enabled
    /\ links = <<>>

\* C32: a token taken by a client operation is never given back: the bucket
\* grows only by the refill of elapsed time at the start of an acquire, the
\* request and its failure leave the bucket alone, and an operation whose
\* request failed, with whatever error, ends with its token still spent.
C32_NoTokenRefund ==
    /\ [](/\ (ccall.op \in ClientOps /\ cpc = "done" /\ attempts = 1) =>
                (granted = lim0.granted + Scale /\ tokens <= Capacity - Scale)
          /\ tokens + granted <= Capacity + now * max_requests)
    /\ [][/\ tokens' > tokens =>
                /\ pc[Main] = "refill_add"
                /\ tokens' = RefillCap(tokens, TokensToAdd(loc[Main].now, last_refill))
                /\ loc[Main].now > last_refill
          /\ granted' >= granted
          /\ cpc \in {"transport", "done"} =>
                (tokens' = tokens /\ last_refill' = last_refill /\ granted' = granted)]_vars

\* C32 witness: the request was made after a wait for the token, time passed
\* while it failed, and the operation has ended with the error and a bucket one
\* token short of what the acquire had gathered.
C32_Witness ==
    /\ cpc = "done"
    /\ ccall.op \in ClientOps
    /\ attempts = 1
    /\ outcome \in {"ApiTimeoutError", "ApiAuthenticationError", "ApiError"}
    /\ granted = lim0.granted + Scale
    /\ tokens < Scale
    /\ now > last_refill
    /\ last_refill > cret.time

\* C33: acquire with block=True and timeout=None, and acquire_async with
\* timeout=None, never return False and never raise: while such a call runs it
\* has no outcome, and when it has returned the outcome is True and its cost
\* has been taken from the bucket.
C33_BlockingAlwaysGranted ==
    \A t \in Tasks :
        (/\ call[t].op \in {"acquire", "acquire_async"}
         /\ call[t].block
         /\ call[t].timeout = NoTimeout
         /\ kind = "tb") =>
            /\ result[t] \in {"none", "True"}
            /\ pc[t] = "done" <=> result[t] = "True"
            /\ pc[t] = "done" => taken[t] = call[t].cost * Scale
            /\ pc[t] # "done" => taken[t] = 0
            /\ retval[t] = 0

\* C33 witness: a blocking acquire without timeout has returned True with its
\* cost taken from tokens that were refilled after the bucket had been emptied.
C33_Witness ==
    /\ kind = "tb"
    /\ call[Main].op = "acquire"
    /\ call[Main].block
    /\ call[Main].timeout = NoTimeout
    /\ pc[Main] = "done"
    /\ result[Main] = "True"
    /\ taken[Main] = call[Main].cost * Scale
    /\ granted > Capacity
    /\ tokens < Scale

\* C33, the other method and the wait: acquire_async without timeout is asleep
\* for tokens it did not find.
C33_WitnessWaiting ==
    /\ kind = "tb"
    /\ call[Main].op = "acquire_async"
    /\ call[Main].timeout = NoTimeout
    /\ pc[Main] = "sleep"
    /\ result[Main] = "none"
    /\ ~Enough(tokens, call[Main].cost)
    /\ call[Main].cost <= max_requests

\* C34: a token-bucket acquire whose cost exceeds the capacity is never
\* granted: it takes nothing and never ends with True; without a timeout a
\* blocking call never returns; with a timeout it returns only False, only
\* when the timeout has elapsed, and a pass of its loop that finds the timeout
\* elapsed returns at once, no sleep it asks for being longer than a second.
C34_UnsatisfiableCost ==
    /\ [](\A t \in Tasks :
            (/\ kind = "tb"
             /\ call[t].op \in {"acquire", "acquire_async"}
             /\ call[t].cost > max_requests) =>
                /\ result[t] # "True"
                /\ pc[t] # "take"
                /\ taken[t] = 0
                /\ (call[t].block /\ call[t].timeout = NoTimeout) =>
                      (pc[t] # "done" /\ result[t] = "none")
                /\ (call[t].block /\ call[t].timeout # NoTimeout /\ pc[t] = "done") =>
                      (result[t] = "False" /\ now - call[t].start >= call[t].timeout)
                /\ pc[t] = "sleep" => wake[t] <= now + TicksPerSecond)
    /\ [][\A t \in Tasks :
            (/\ kind = "tb"
             /\ call[t].op \in {"acquire", "acquire_async"}
             /\ call[t].cost > max_requests
             /\ call[t].timeout # NoTimeout
             /\ call[t].block
             /\ pc[t] = "fail"
             /\ pc'[t] # "fail") =>
                IF now - call[t].start >= call[t].timeout
                THEN pc'[t] = "done" /\ result'[t] = "False"
                ELSE pc'[t] = "sleep" /\ wake'[t] > now]_vars

\* C34 witness: a blocking acquire without timeout for more than the capacity
\* is asleep again over a full bucket, a whole window after its call.
C34_Witness ==
    /\ kind = "tb"
    /\ call[Main].op = "acquire"
    /\ call[Main].block
    /\ call[Main].timeout = NoTimeout
    /\ call[Main].cost > max_requests
    /\ pc[Main] = "sleep"
    /\ tokens = Capacity
    /\ last_refill >= WindowTicks
    /\ granted = 0

\* C34, the timed call: it has returned False over a full bucket after its
\* timeout.
C34_WitnessTimed ==
    /\ kind = "tb"
    /\ call[Main].op \in {"acquire", "acquire_async"}
    /\ call[Main].timeout = MaxTimeout
    /\ call[Main].cost > max_requests
    /\ pc[Main] = "done"
    /\ result[Main] = "False"
    /\ tokens = Capacity
    /\ now - call[Main].start >= MaxTimeout

\* C35: in every pass of a blocking acquire the capacity is checked before
\* the timeout: a pass that finds enough capacity grants, however long the
\* call has lasted, and False is returned only by a pass that found too little
\* capacity and the timeout elapsed.
C35_GrantBeforeTimeout ==
    /\ [](\A t \in Tasks :
            /\ pc[t] \in {"take", "sw_append"} =>
                  IF kind = "tb" THEN Enough(tokens, call[t].cost) ELSE HasRoom(requests)
            /\ pc[t] \in {"fail", "sw_fail"} =>
                  IF kind = "tb" THEN ~Enough(tokens, call[t].cost) ELSE ~HasRoom(requests)
            /\ (pc[t] = "done" /\ result[t] = "False") =>
                  /\ call[t].timeout # NoTimeout
                  /\ now - call[t].start >= call[t].timeout
                  /\ IF kind = "tb" THEN ~Enough(tokens, call[t].cost)
                                    ELSE ~HasRoom(requests))
    /\ [][\A t \in Tasks :
            /\ (pc[t] = "check" /\ pc'[t] # "check" /\ Enough(tokens, call[t].cost)) =>
                  pc'[t] = "take"
            /\ (pc[t] = "sw_check" /\ pc'[t] # "sw_check" /\ HasRoom(requests)) =>
                  pc'[t] = "sw_append"
            /\ (pc[t] \in {"take", "sw_append"} /\ pc'[t] # pc[t]) =>
                  (pc'[t] = "done" /\ result'[t] = "True")
            /\ (result'[t] = "False" /\ result[t] # "False") =>
                  /\ pc[t] \in {"fail", "sw_fail"}
                  /\ TimedOut(call[t], now)]_vars

\* C35 witness: a waiter on the token bucket was granted by a pass that began
\* when its timeout had already elapsed, the tokens having come during its
\* sleep.
C35_Witness ==
    /\ kind = "tb"
    /\ call[Main].op \in {"acquire", "acquire_async"}
    /\ call[Main].block
    /\ call[Main].timeout = MaxTimeout
    /\ pc[Main] = "done"
    /\ result[Main] = "True"
    /\ last_refill - call[Main].start >= call[Main].timeout
    /\ entry[Main].tokens < call[Main].cost * Scale
    /\ entry[Main].last_refill = call[Main].start

\* C35, timeout=0: the call was granted from the capacity it found, on either
\* limiter.
C35_WitnessZero ==
    /\ call[Main].op = "acquire"
    /\ call[Main].block
    /\ call[Main].timeout = 0
    /\ pc[Main] = "done"
    /\ result[Main] = "True"
    /\ kind = "sw" => Len(requests) = max_requests
    /\ kind = "tb" => tokens = 0

\* C36: from a full bucket and with no time elapsing (nothing refilled since
\* the bucket was full, the clock still at the bucket's own time stamp), an
\* acquisition of cost 1 is granted at its first check when fewer than
\* max_requests were granted since, and is not granted when max_requests were:
\* it sleeps, returns False or raises, according to its mode.
C36_BurstTolerance ==
    /\ [](\A t \in Tasks :
            (tokens + granted = Capacity /\ last_refill = now) =>
                /\ granted <= Capacity
                /\ pc[t] = "take" => granted < Capacity
                /\ pc[t] = "fail" => granted = Capacity
                /\ (pc[t] = "done" /\ result[t] = "True") => granted \div Scale \in 1..max_requests
                /\ (pc[t] = "done" /\ result[t] \in {"False", "RateLimitExceededError"}) =>
                      granted \div Scale = max_requests
                /\ pc[t] = "sleep" => (granted \div Scale = max_requests /\ wake[t] > now))
    /\ [][\A t \in Tasks :
            (/\ tokens + granted = Capacity
             /\ last_refill = now
             /\ pc[t] = "check"
             /\ pc'[t] # "check") =>
                IF granted \div Scale < max_requests
                THEN pc'[t] = "take"
                ELSE pc'[t] = "fail"]_vars

\* C36 witness: max_requests acquisitions were granted at the instant of the
\* construction, and the next one is asleep for its token.
C36_Witness ==
    /\ now = 0
    /\ last_refill = 0
    /\ granted \div Scale = max_requests
    /\ tokens = 0
    /\ call[Main].op \in {"acquire", "acquire_async"}
    /\ call[Main].block
    /\ call[Main].timeout = NoTimeout
    /\ pc[Main] = "sleep"
    /\ wake[Main] > now

\* C36, a later burst: at an instant after the construction at which the
\* bucket was full (reset, or refilled while idle), max_requests acquisitions
\* were granted and the next one, not blocking, has raised.
C36_WitnessLater ==
    /\ now > 0
    /\ last_refill = now
    /\ tokens + granted = Capacity
    /\ tokens = 0
    /\ call[Main].op = "acquire"
    /\ ~call[Main].block
    /\ pc[Main] = "done"
    /\ result[Main] = "RateLimitExceededError"

\* C37: get_available_tokens and get_wait_time only refill, and refilling in
\* two steps gives the tokens of refilling in one, so that helper calls made
\* between acquisitions change neither the tokens the next acquisition finds
\* nor which acquisitions are granted: of two limiters given the same
\* acquisitions, the one that was also asked grants exactly what the other does.
C37_HelpersChangeNoGrant ==
    twin.out[1] = twin.out[2]

\* C37 failing state: with max_requests = 1 the one token was taken at the
\* construction; a window later the limiter that was asked in between holds
\* less than a token and has refused the acquisition the other one granted.
C37_GrantLost ==
    /\ twin.max_requests = 1
    /\ twin.out = <<"RateLimitExceededError", "True">>
    /\ twin.polled.tokens < FloatUnit
    /\ twin.polled.tokens > 0
    /\ twin.plain.tokens = 0
    /\ twin.polled.last_refill = twin.plain.last_refill

\* C38: a computation of get_or_set that returns None has its result stored
\* like any other, yet the lookup of a later get_or_set on the key returns
\* None for it as for a miss, so that compute is invoked again within the
\* ttl; only a lookup that returns a value other than None ends the call
\* without compute.
C38_NoneIsComputedAgain ==
    /\ [](ccall.op = "get_or_set" =>
            /\ (cpc = "done" /\ cret.path = "hit" /\ cret.value # None) =>
                  outcome = cret.value
            /\ (cret.path # "none" /\ cret.value = None) => cpc \in {"factory", "done"}
            /\ cpc = "factory" => cret.value = None)
    /\ [][ccall.op = "get_or_set" =>
            /\ (cpc = "get_expired" /\ cpc' # "get_expired" /\ ~IsExpired(centry, now)) =>
                  /\ cret'.path = "hit"
                  /\ cret'.value = centry.value
                  /\ cpc' = IF centry.value = None THEN "factory" ELSE "done"
            /\ (cpc = "factory" /\ cpc' = "done" /\ enabled
                    /\ EffectiveTtl(ccall.given, ccall.ttl) > 0) =>
                  /\ TTLContains(store', links', ccall.key, now)
                  /\ store'[ccall.key].value = outcome'
                  /\ promise'.key = ccall.key
                  /\ promise'.value = outcome']_vars

\* C38 witness: the None a computation returned is in the cache, unexpired,
\* a second get_or_set has looked it up, and compute is about to be invoked
\* again.
C38_Witness ==
    /\ enabled
    /\ ccall.op = "get_or_set"
    /\ cpc = "factory"
    /\ cret.path = "hit"
    /\ cret.value = None
    /\ promise.key = ccall.key
    /\ promise.value = None
    /\ cret.time < promise.expires_at
    /\ TTLContains(store, links, ccall.key, now)
    /\ store[ccall.key].value = None

\* what the pattern means as a glob: "*" stands for any run of characters,
\* every other character for itself
RECURSIVE Glob(_, _)
Glob(pattern, key) ==
    IF pattern = <<>> THEN key = <<>>
    ELSE IF Head(pattern) = "*"
         THEN Glob(Tail(pattern), key) \/ (key # <<>> /\ Glob(pattern, Tail(key)))
         ELSE key # <<>> /\ Head(key) = Head(pattern) /\ Glob(Tail(pattern), Tail(key))

\* C39: on the in-memory backend of an enabled cache, invalidate_pattern
\* deletes exactly the keys that match the glob pattern (for "pin:*" the keys
\* that start with "pin:") and leaves every other key with its value.
C39_DeletesExactlyMatches ==
    (enabled /\ inval # NoInval) =>
        \A k \in KeyTexts :
            inval.after[k] = IF Glob(inval.pattern, k) THEN None ELSE inval.before[k]

\* C39 failing state: invalidate_pattern("pin:*") has deleted the key
\* "vpin:a", which does not start with "pin:", along with the keys that do.
C39_NonMatchingDeleted ==
    /\ enabled
    /\ inval.pattern = <<"p", "i", "n", ":", "*">>
    /\ \A k \in KeyTexts : inval.before[k] \in Values
    /\ inval.after[<<"v", "p", "i", "n", ":", "a">>] = None
    /\ ~Glob(inval.pattern, <<"v", "p", "i", "n", ":", "a">>)
    /\ inval.after[<<"p", "i", "n", ":", "a">>] = None
    /\ inval.after[<<"t", "c", "c", ":", "a">>] = inval.before[<<"t", "c", "c", ":", "a">>]

\* the delay before the jitter, as the specification writes it:
\* d(n) = min(initial_delay * exponential_base^n, max_delay)
Backoff(cfg, n) == Min(cfg.initial_delay * Pow(cfg.exponential_base, n), cfg.max_delay)

\* C40: for every attempt n >= 0, get_delay(n) returns a delay; the delay
\* before the jitter, d(n) = min(initial_delay * exponential_base^n, max_delay),
\* does not decrease from n to n + 1; and the delay returned lies within
\* [0.75 * d(n), 1.25 * d(n)] and is not negative.
C40_BackoffShape ==
    retry.attempt >= 0 =>
        /\ retry.raised = "none"
        /\ Backoff(retry, retry.attempt) <= Backoff(retry, retry.attempt + 1)
        /\ 4 * retry.delay >= 3 * Backoff(retry, retry.attempt) * DelayScale
        /\ 4 * retry.delay <= 5 * Backoff(retry, retry.attempt) * DelayScale
        /\ retry.delay >= 0

\* C40 failing state: get_delay(n) was called for an attempt whose d(n) is
\* max_delay, and the power exponential_base^n raised OverflowError, so that
\* no delay was returned.
C40_PowerOverflows ==
    /\ retry.attempt >= 0
    /\ retry.raised = "OverflowError"
    /\ Backoff(retry, retry.attempt) = retry.max_delay

\* C40, the calls that return: every delay get_delay(n) returns lies within
\* [0.75 * d(n), 1.25 * d(n)], is not negative, and d(n) <= d(n + 1).
C40_ShapeOfReturnedDelays ==
    (retry.attempt >= 0 /\ retry.raised = "none") =>
        /\ Backoff(retry, retry.attempt) <= Backoff(retry, retry.attempt + 1)
        /\ 4 * retry.delay >= 3 * Backoff(retry, retry.attempt) * DelayScale
        /\ 4 * retry.delay <= 5 * Backoff(retry, retry.attempt) * DelayScale
        /\ retry.delay >= 0

\* C40, the calls that return: a delay was returned at each end of the range,
\* 0.75 * d(n) with the lowest jitter draw and above d(n) with the highest.
C40_ReturnedAtTheEnds ==
    /\ retry.attempt >= 1
    /\ retry.raised = "none"
    /\ \/ 4 * retry.delay = 3 * Backoff(retry, retry.attempt) * DelayScale
       \/ retry.delay > Backoff(retry, retry.attempt) * DelayScale

====
